---------------------------- MODULE Spec2Model ----------------------------
(***************************************************************************)
(* BankChain core: KYCRegistry, DepositToken (BKD), BankVault and          *)
(* LendingPool, as one state machine.                                      *)
(*                                                                         *)
(* Every contract function is an operator from a world state `s` (a record *)
(* of all contract storage, the ETH balances and the logs of the running   *)
(* transaction) to a result [st, err]: the world after the call and "ok",  *)
(* or the error it reverted with.  A revert hands back the world the       *)
(* function was entered with (the EVM discards the frame's writes).  One   *)
(* action of the machine is one transaction: it runs the function on the   *)
(* current world and commits the world it returns.                         *)
(*                                                                         *)
(* Time: block.timestamp is counted in ticks, TicksPerYear ticks to        *)
(* `365 days`, so that dt * annualRateBps * debt stays a small integer;    *)
(* debt*rate*dt / (10000 * 365 days) is the same rational number whether   *)
(* dt and the year are written in seconds or in ticks.                     *)
(***************************************************************************)
EXTENDS Integers, Sequences, FiniteSets, TLC

\* ------------------------------------------------------------------ bounds
MaxAmt == 2          \* largest amount / msg.value a caller passes
InitEth == 2         \* ETH each user account starts with
MaxTime == 3         \* last block timestamp (in ticks) the model reaches
TicksPerYear == 1    \* ticks in `365 days`
MaxSupply == 3       \* transactions that leave a larger totalSupply are not explored
MaxLogs == 6         \* logs kept on the chain that the indexer reads
MaxRequests == 2       \* rows of kyc_requests
MaxHandlers == 2       \* admin requests the backend is handling at a time

\* ------------------------------------------------------- program constants
LTVCap == 9000           \* setParams: require(_maxLTVBps <= 9000)
RateCap == 5000          \* setParams: require(_annualRateBps <= 5000)
BpsDenominator == 10000  \* basis points
DefaultMaxLTVBps == 5000
DefaultAnnualRateBps == 800

\* ---------------------------------------------------------------- accounts
Admin == "admin"         \* deployer: the `admin` constructor argument
Customers == {"alice"}
Users == {Admin} \cup Customers          \* accounts that send transactions
VaultAddr == "vault"                     \* address(BankVault)
PoolAddr == "pool"                       \* address(LendingPool)
Addr == Users \cup {VaultAddr, PoolAddr}
ZeroAddr == "0x0"                        \* address(0)
Pools == {VaultAddr, PoolAddr}           \* the contracts that hold tokens for others

OK == "ok"

VARIABLES
    now,            \* block.timestamp
    kyc,            \* KYCRegistry._kyc
    pendingKycHash, \* KYCRegistry.pendingKycHash
    complianceRole, \* KYCRegistry: holders of COMPLIANCE_ROLE
    balances,       \* ERC20._balances of DepositToken
    totalSupply,    \* ERC20._totalSupply
    allowances,     \* ERC20._allowances: pairs <<owner, spender>> with allowance MaxUint256
    isSystemAddress,\* DepositToken.isSystemAddress (the set of addresses mapped to true)
    minterRole,     \* DepositToken: holders of MINTER_ROLE
    eth,            \* native balance of every address
    vaultEntered,   \* BankVault's ReentrancyGuard._status == ENTERED
    poolEntered,    \* LendingPool's ReentrancyGuard._status == ENTERED
    accounts,       \* LendingPool.accounts
    maxLTVBps,      \* LendingPool.maxLTVBps
    annualRateBps,  \* LendingPool.annualRateBps
    chainLogs,      \* the logs of the mined and pending transactions, in chain order
    events,         \* the indexer's SQLite table events, in id order
    running,        \* the indexOnce runs in progress: the rows each has yet to insert
    kycRequests,    \* the backend's SQLite table kyc_requests, in id order
    kycActions,     \* the backend's SQLite table kyc_actions, in id order
    handlers        \* the admin requests the backend is handling, each at an await

vars == <<now, kyc, pendingKycHash, complianceRole, balances, totalSupply,
          allowances, isSystemAddress, minterRole, eth, vaultEntered,
          poolEntered, accounts, maxLTVBps, annualRateBps,
          chainLogs, events, running, kycRequests, kycActions, handlers>>


\* ------------------------------------------------------------ world state
\* The storage of the four contracts, the native balances, the logs of the
\* running transaction and (ghost) the calls a payee made from its callback.
World ==
    [ now |-> now, kyc |-> kyc, pendingKycHash |-> pendingKycHash,
      complianceRole |-> complianceRole, balances |-> balances,
      totalSupply |-> totalSupply, allowances |-> allowances,
      isSystemAddress |-> isSystemAddress, minterRole |-> minterRole,
      eth |-> eth, vaultEntered |-> vaultEntered, poolEntered |-> poolEntered,
      accounts |-> accounts, maxLTVBps |-> maxLTVBps,
      annualRateBps |-> annualRateBps, logs |-> <<>>, calls |-> <<>> ]

\* A call returns the world it leaves behind and "ok", or the error it
\* reverted with together with the world as it was on entry.
\* `who` is the address a custom error names (NotKYCApproved(user)).
Return(s) == [st |-> s, err |-> OK, who |-> ZeroAddr]
Revert(s, e) == [st |-> s, err |-> e, who |-> ZeroAddr]
RevertFor(s, e, user) == [st |-> s, err |-> e, who |-> user]
\* A faulty unwinding: the caller fails with the callee's error but keeps
\* what it had written before the call.
BubbleKeepingWrites(s, r) == [st |-> r.st, err |-> r.err, who |-> r.who]

\* A callee's revert bubbles up: the caller's frame is discarded as well.
Bubble(s, r) == [st |-> s, err |-> r.err, who |-> r.who]

\* An event: its name, up to two addresses and up to two numbers.
Event(kind, a, b, x, y) == [kind |-> kind, a |-> a, b |-> b, x |-> x, y |-> y]
Emit(s, ev) == [s EXCEPT !.logs = Append(@, ev)]

\* ------------------------------------------------------------ KYCRegistry
NoHash == 0                                  \* bytes32(0)
NoKYC == [approved |-> FALSE, level |-> 0, expiresAt |-> 0]

\* A faulty check: the approval already counts as expired at expiresAt itself.
isKYCApprovedBeforeExpiry(s, user) ==
    LET k == s.kyc[user] IN
    IF ~k.approved THEN FALSE
    ELSE IF k.expiresAt = 0 THEN TRUE
    ELSE s.now < k.expiresAt

isKYCApproved(s, user) ==
    LET k == s.kyc[user] IN
    IF ~k.approved THEN FALSE
    ELSE IF k.expiresAt = 0 THEN TRUE
    ELSE s.now <= k.expiresAt

\* A faulty modifier: the role is checked, the caller's own record is not.
onlyComplianceRole(s, sender) ==
    IF sender \notin s.complianceRole THEN "Not compliance" ELSE OK

\* modifier onlyComplianceApproved: the error it stops the call with, or OK
onlyComplianceApproved(s, sender) ==
    IF sender \notin s.complianceRole THEN "Not compliance"
    ELSE IF ~isKYCApproved(s, sender) THEN "Admin must be KYC-approved"
    ELSE OK

\* A faulty request: the requester's record goes back to not approved.
requestKYCStartingOver(s, sender, kycHash) ==
    IF kycHash = NoHash THEN Revert(s, "kycHash=0")
    ELSE Return(Emit([s EXCEPT !.pendingKycHash[sender] = kycHash,
                               !.kyc[sender].approved = FALSE],
                     Event("KYCRequested", sender, ZeroAddr, kycHash, 0)))

requestKYC(s, sender, kycHash) ==
    IF kycHash = NoHash THEN Revert(s, "kycHash=0")
    ELSE Return(Emit([s EXCEPT !.pendingKycHash[sender] = kycHash],
                     Event("KYCRequested", sender, ZeroAddr, kycHash, 0)))

\* A faulty approval: the pending hash is left in place.
approveFromRequestKeepingHash(s, sender, user, level, expiresAt) ==
    LET g == onlyComplianceApproved(s, sender) IN
    IF g # OK THEN Revert(s, g)
    ELSE IF s.pendingKycHash[user] = NoHash
    THEN Revert(s, "No on-chain pending request")
    ELSE Return(Emit([s EXCEPT
            !.kyc[user] = [approved |-> TRUE, level |-> level, expiresAt |-> expiresAt]],
            Event("KYCApproved", user, sender, level, expiresAt)))

approveFromRequest(s, sender, user, level, expiresAt) ==
    LET g == onlyComplianceApproved(s, sender) IN
    IF g # OK THEN Revert(s, g)
    ELSE IF s.pendingKycHash[user] = NoHash
    THEN Revert(s, "No on-chain pending request")
    ELSE Return(Emit([s EXCEPT
            !.kyc[user] = [approved |-> TRUE, level |-> level, expiresAt |-> expiresAt],
            !.pendingKycHash[user] = NoHash],
            Event("KYCApproved", user, sender, level, expiresAt)))

\* A faulty alias: the role is enough, the caller's own record is not read.
approveKYCByRoleAlone(s, sender, user) ==
    IF sender \notin s.complianceRole THEN Revert(s, "Not compliance")
    ELSE IF s.pendingKycHash[user] = NoHash
    THEN Revert(s, "No on-chain pending request")
    ELSE Return(Emit([s EXCEPT
            !.kyc[user] = [approved |-> TRUE, level |-> 1, expiresAt |-> 0],
            !.pendingKycHash[user] = NoHash],
            Event("KYCApproved", user, sender, 1, 0)))

\* A faulty alias: it approves without a pending request.
approveKYCWithoutRequest(s, sender, user) ==
    LET g == onlyComplianceApproved(s, sender) IN
    IF g # OK THEN Revert(s, g)
    ELSE Return(Emit([s EXCEPT
            !.kyc[user] = [approved |-> TRUE, level |-> 1, expiresAt |-> 0],
            !.pendingKycHash[user] = NoHash],
            Event("KYCApproved", user, sender, 1, 0)))

approveKYC(s, sender, user) ==
    LET g == onlyComplianceApproved(s, sender) IN
    IF g # OK THEN Revert(s, g)
    ELSE IF s.pendingKycHash[user] = NoHash
    THEN Revert(s, "No on-chain pending request")
    ELSE Return(Emit([s EXCEPT
            !.kyc[user] = [approved |-> TRUE, level |-> 1, expiresAt |-> 0],
            !.pendingKycHash[user] = NoHash],
            Event("KYCApproved", user, sender, 1, 0)))

\* A faulty revocation: the whole record is deleted.
revokeKYCDeletingRecord(s, sender, user) ==
    LET g == onlyComplianceApproved(s, sender) IN
    IF g # OK THEN Revert(s, g)
    ELSE Return(Emit([s EXCEPT !.kyc[user] = NoKYC],
                     Event("KYCRevoked", user, sender, 0, 0)))

revokeKYC(s, sender, user) ==
    LET g == onlyComplianceApproved(s, sender) IN
    IF g # OK THEN Revert(s, g)
    ELSE Return(Emit([s EXCEPT !.kyc[user].approved = FALSE],
                     Event("KYCRevoked", user, sender, 0, 0)))


\* AccessControl.grantRole(COMPLIANCE_ROLE, account), by the role's admin
\* (the constructor grants DEFAULT_ADMIN_ROLE to `admin` alone).
grantComplianceRole(s, sender, account) ==
    IF sender # Admin THEN RevertFor(s, "AccessControlUnauthorizedAccount", sender)
    ELSE IF account \in s.complianceRole THEN Return(s)
    ELSE Return(Emit([s EXCEPT !.complianceRole = @ \cup {account}],
                     Event("RoleGranted", account, sender, 0, 0)))

\* ----------------------------------------------------------- DepositToken
\* AccessControl.onlyRole: AccessControlUnauthorizedAccount(account, role)
Unauthorized == "AccessControlUnauthorizedAccount"

\* A faulty balance move: a mint credits the account but not totalSupply.
ERC20UpdateNoSupply(s, from, to, value) ==
    IF from # ZeroAddr /\ s.balances[from] < value
    THEN RevertFor(s, "ERC20InsufficientBalance", from)
    ELSE
      LET s1 == IF from = ZeroAddr THEN s
                ELSE [s EXCEPT !.balances[from] = @ - value]
          s2 == IF to = ZeroAddr
                THEN [s1 EXCEPT !.totalSupply = @ - value]
                ELSE [s1 EXCEPT !.balances[to] = @ + value]
      IN Return(Emit(s2, Event("Transfer", from, to, value, 0)))

\* ERC20._update of OpenZeppelin v5 (super._update): the balance move itself.
ERC20Update(s, from, to, value) ==
    IF from # ZeroAddr /\ s.balances[from] < value
    THEN RevertFor(s, "ERC20InsufficientBalance", from)
    ELSE
      LET s1 == IF from = ZeroAddr
                THEN [s EXCEPT !.totalSupply = @ + value]
                ELSE [s EXCEPT !.balances[from] = @ - value]
          s2 == IF to = ZeroAddr
                THEN [s1 EXCEPT !.totalSupply = @ - value]
                ELSE [s1 EXCEPT !.balances[to] = @ + value]
      IN Return(Emit(s2, Event("Transfer", from, to, value, 0)))

\* A faulty check: the system-address flag is ignored.
KycExemptApprovedOnly(s, a) == isKYCApproved(s, a)

\* DepositToken._update: the KYC check on mint, burn and transfer.
KycExempt(s, a) == a \in s.isSystemAddress \/ isKYCApproved(s, a)

\* A faulty check: a transfer looks at the recipient only.
TokenUpdateRecipientOnly(s, from, to, value) ==
    IF from = ZeroAddr
    THEN IF ~KycExempt(s, to) THEN RevertFor(s, "NotKYCApproved", to)
         ELSE ERC20Update(s, from, to, value)
    ELSE IF to = ZeroAddr
    THEN IF ~KycExempt(s, from) THEN RevertFor(s, "NotKYCApproved", from)
         ELSE ERC20Update(s, from, to, value)
    ELSE IF ~KycExempt(s, to) THEN RevertFor(s, "NotKYCApproved", to)
    ELSE ERC20Update(s, from, to, value)

TokenUpdate(s, from, to, value) ==
    IF from = ZeroAddr
    THEN IF ~KycExempt(s, to) THEN RevertFor(s, "NotKYCApproved", to)
         ELSE ERC20Update(s, from, to, value)
    ELSE IF to = ZeroAddr
    THEN IF ~KycExempt(s, from) THEN RevertFor(s, "NotKYCApproved", from)
         ELSE ERC20Update(s, from, to, value)
    ELSE IF ~KycExempt(s, from) THEN RevertFor(s, "NotKYCApproved", from)
    ELSE IF ~KycExempt(s, to) THEN RevertFor(s, "NotKYCApproved", to)
    ELSE ERC20Update(s, from, to, value)

setSystemAddress(s, sender, who, enabled) ==
    IF sender # Admin THEN RevertFor(s, Unauthorized, sender)
    ELSE Return([s EXCEPT !.isSystemAddress =
                    IF enabled THEN @ \cup {who} ELSE @ \ {who}])

\* A faulty mint: anyone may call it.
mintByAnyone(s, sender, to, amount) == TokenUpdate(s, ZeroAddr, to, amount)

mint(s, sender, to, amount) ==
    IF sender \notin s.minterRole THEN RevertFor(s, Unauthorized, sender)
    ELSE TokenUpdate(s, ZeroAddr, to, amount)

burn(s, sender, from, amount) ==
    IF sender \notin s.minterRole THEN RevertFor(s, Unauthorized, sender)
    ELSE TokenUpdate(s, from, ZeroAddr, amount)

\* ERC20.transfer(to, value): _transfer(msg.sender, to, value)
transfer(s, sender, to, value) == TokenUpdate(s, sender, to, value)

\* ERC20.approve(spender, value), for value 0 or type(uint256).max
approve(s, sender, spender, unlimited) ==
    Return(Emit([s EXCEPT !.allowances =
                    IF unlimited THEN @ \cup {<<sender, spender>>}
                    ELSE @ \ {<<sender, spender>>}],
                Event("Approval", sender, spender, IF unlimited THEN 1 ELSE 0, 0)))

\* ERC20.transferFrom(from, to, value) called by `spender`: _spendAllowance
\* (an allowance of type(uint256).max is not decreased), then _transfer.
transferFrom(s, spender, from, to, value) ==
    IF <<from, spender>> \notin s.allowances /\ value > 0
    THEN RevertFor(s, "ERC20InsufficientAllowance", spender)
    ELSE TokenUpdate(s, from, to, value)

\* AccessControl.grantRole(MINTER_ROLE, account), by the role's admin
grantMinterRole(s, sender, account) ==
    IF sender # Admin THEN RevertFor(s, Unauthorized, sender)
    ELSE IF account \in s.minterRole THEN Return(s)
    ELSE Return(Emit([s EXCEPT !.minterRole = @ \cup {account}],
                     Event("RoleGranted", account, sender, 0, 0)))


\* -------------------------------------------------------------- BankVault
Reentrant == "ReentrancyGuardReentrantCall"
TreasuryRole == {Admin}      \* constructor: _grantRole(TREASURY_ROLE, admin)

\* What the code of a payee does when ETH arrives (its receive/fallback):
\* take it, revert, or first call back into the vault (and then either pass a
\* failure of that call on by reverting, or swallow it).  The callback of a
\* nested payout only takes or refuses the ETH.
SimpleHooks == {[kind |-> "accept"], [kind |-> "reject"]}
NestedCalls(payee) ==
    {[fn |-> "deposit", to |-> payee, amount |-> 1, hook |-> [kind |-> "accept"]]}
    \cup {[fn |-> f, to |-> payee, amount |-> 1, hook |-> [kind |-> "accept"]] :
            f \in {"withdraw", "treasuryWithdrawETH"}}
    \cup {[fn |-> "transferBKD", to |-> u, amount |-> 1, hook |-> [kind |-> "accept"]] :
            u \in Users \ {payee}}
Hooks(payee) ==
    SimpleHooks \cup
    {[kind |-> "reenter", call |-> c, propagate |-> p] :
        c \in NestedCalls(payee), p \in BOOLEAN}
AllHooks == UNION {Hooks(u) : u \in Users}

RECURSIVE EthCall(_, _, _, _, _)
RECURSIVE VaultCall(_, _, _)
RECURSIVE withdraw(_, _, _, _)
RECURSIVE treasuryWithdrawETH(_, _, _, _, _)

\* A faulty modifier: it lets everyone through.
onlyKYCOpen(s, user) == TRUE

\* modifier onlyKYC(user) of BankVault and of LendingPool
onlyKYC(s, user) == isKYCApproved(s, user)

\* A faulty deposit: the ETH is taken and nothing is minted.
depositWithoutMint(s, sender, value) ==
    IF s.eth[sender] < value THEN Revert(s, "OutOfFunds")
    ELSE IF s.vaultEntered THEN Revert(s, Reentrant)
    ELSE IF ~onlyKYC(s, sender) THEN RevertFor(s, "NotKYCApproved", sender)
    ELSE IF ~(value > 0) THEN Revert(s, "Deposit must be > 0")
    ELSE Return(Emit([s EXCEPT !.eth[sender] = @ - value,
                               !.eth[VaultAddr] = @ + value],
                     Event("Deposited", sender, ZeroAddr, value, value)))

\* A faulty deposit: one token more than the wei received is minted.
depositMintingMore(s, sender, value) ==
    IF s.eth[sender] < value THEN Revert(s, "OutOfFunds")
    ELSE IF s.vaultEntered THEN Revert(s, Reentrant)
    ELSE IF ~onlyKYC(s, sender) THEN RevertFor(s, "NotKYCApproved", sender)
    ELSE IF ~(value > 0) THEN Revert(s, "Deposit must be > 0")
    ELSE
      LET s1 == [s EXCEPT !.eth[sender] = @ - value,
                          !.eth[VaultAddr] = @ + value]
          r == mint(s1, VaultAddr, sender, value + 1)
      IN IF r.err # OK THEN Bubble(s, r)
         ELSE Return(Emit(r.st, Event("Deposited", sender, ZeroAddr, value, value + 1)))

\* msg.value moves to the vault before the body runs.
deposit(s, sender, value) ==
    IF s.eth[sender] < value THEN Revert(s, "OutOfFunds")
    ELSE IF s.vaultEntered THEN Revert(s, Reentrant)
    ELSE
      LET s1 == [s EXCEPT !.eth[sender] = @ - value,
                          !.eth[VaultAddr] = @ + value,
                          !.vaultEntered = TRUE]
      IN
      IF ~onlyKYC(s1, sender) THEN RevertFor(s, "NotKYCApproved", sender)
      ELSE IF ~(value > 0) THEN Revert(s, "Deposit must be > 0")
      ELSE
        LET r == mint(s1, VaultAddr, sender, value) IN
        IF r.err # OK THEN Bubble(s, r)
        ELSE Return([Emit(r.st, Event("Deposited", sender, ZeroAddr, value, value))
                        EXCEPT !.vaultEntered = FALSE])

\* payable(to).call{value: amount}(""): [ok, st]
EthCall(s, from, to, amount, hook) ==
    IF s.eth[from] < amount THEN [ok |-> FALSE, st |-> s]
    ELSE
      LET s1 == [s EXCEPT !.eth = [[@ EXCEPT ![from] = @ - amount]
                                        EXCEPT ![to] = @ + amount]]
      IN
      CASE hook.kind = "accept" -> [ok |-> TRUE, st |-> s1]
        [] hook.kind = "reject" -> [ok |-> FALSE, st |-> s]
        [] hook.kind = "reenter" ->
            LET r == VaultCall(s1, to, hook.call)
                s2 == [r.st EXCEPT !.calls =
                         Append(@, [fn |-> hook.call.fn, sender |-> to, err |-> r.err])]
            IN IF r.err # OK /\ hook.propagate
               THEN [ok |-> FALSE, st |-> s]
               ELSE [ok |-> TRUE, st |-> s2]

\* A faulty withdraw: the result of the ETH call is not looked at.
withdrawUnchecked(s, sender, amount, hook) ==
    IF s.vaultEntered THEN Revert(s, Reentrant)
    ELSE
      LET s1 == [s EXCEPT !.vaultEntered = TRUE] IN
      IF ~onlyKYC(s1, sender) THEN RevertFor(s, "NotKYCApproved", sender)
      ELSE IF ~(amount > 0) THEN Revert(s, "Amount must be > 0")
      ELSE
        LET r == burn(s1, VaultAddr, sender, amount) IN
        IF r.err # OK THEN Bubble(s, r)
        ELSE
          LET p == EthCall(r.st, VaultAddr, sender, amount, hook) IN
          Return([Emit(p.st, Event("Withdrawn", sender, ZeroAddr, amount, amount))
                     EXCEPT !.vaultEntered = FALSE])

withdraw(s, sender, amount, hook) ==
    IF s.vaultEntered THEN Revert(s, Reentrant)
    ELSE
      LET s1 == [s EXCEPT !.vaultEntered = TRUE] IN
      IF ~onlyKYC(s1, sender) THEN RevertFor(s, "NotKYCApproved", sender)
      ELSE IF ~(amount > 0) THEN Revert(s, "Amount must be > 0")
      ELSE
        LET r == burn(s1, VaultAddr, sender, amount) IN
        IF r.err # OK THEN Bubble(s, r)
        ELSE
          LET p == EthCall(r.st, VaultAddr, sender, amount, hook) IN
          IF ~p.ok THEN Revert(s, "ETH transfer failed")
          ELSE Return([Emit(p.st, Event("Withdrawn", sender, ZeroAddr, amount, amount))
                          EXCEPT !.vaultEntered = FALSE])

\* A faulty transferBKD: the tokens are pulled into the vault and stay there.
transferBKDPullOnly(s, sender, to, amount) ==
    IF s.vaultEntered THEN Revert(s, Reentrant)
    ELSE
      LET s1 == [s EXCEPT !.vaultEntered = TRUE] IN
      IF ~onlyKYC(s1, sender) THEN RevertFor(s, "NotKYCApproved", sender)
      ELSE IF ~onlyKYC(s1, to) THEN RevertFor(s, "NotKYCApproved", to)
      ELSE IF ~(amount > 0) THEN Revert(s, "Amount must be > 0")
      ELSE
        LET r1 == transferFrom(s1, VaultAddr, sender, VaultAddr, amount) IN
        IF r1.err # OK THEN Bubble(s, r1)
        ELSE Return([Emit(r1.st, Event("TransferBKD", sender, to, amount, 0))
                        EXCEPT !.vaultEntered = FALSE])

transferBKD(s, sender, to, amount) ==
    IF s.vaultEntered THEN Revert(s, Reentrant)
    ELSE
      LET s1 == [s EXCEPT !.vaultEntered = TRUE] IN
      IF ~onlyKYC(s1, sender) THEN RevertFor(s, "NotKYCApproved", sender)
      ELSE IF ~onlyKYC(s1, to) THEN RevertFor(s, "NotKYCApproved", to)
      ELSE IF ~(amount > 0) THEN Revert(s, "Amount must be > 0")
      ELSE
        LET r1 == transferFrom(s1, VaultAddr, sender, VaultAddr, amount) IN
        IF r1.err # OK THEN Bubble(s, r1)
        ELSE
          LET r2 == transfer(r1.st, VaultAddr, to, amount) IN
          IF r2.err # OK THEN Bubble(s, r2)
          ELSE Return([Emit(r2.st, Event("TransferBKD", sender, to, amount, 0))
                          EXCEPT !.vaultEntered = FALSE])

treasuryWithdrawETH(s, sender, to, amount, hook) ==
    IF sender \notin TreasuryRole THEN RevertFor(s, Unauthorized, sender)
    ELSE
      LET p == EthCall(s, VaultAddr, to, amount, hook) IN
      IF ~p.ok THEN Revert(s, "ETH transfer failed")
      ELSE Return(p.st)

\* receive() external payable {}
receive(s, sender, value) ==
    IF s.eth[sender] < value THEN Revert(s, "OutOfFunds")
    ELSE Return([s EXCEPT !.eth = [[@ EXCEPT ![sender] = @ - value]
                                        EXCEPT ![VaultAddr] = @ + value]])

\* A call into the vault made by `sender` from its callback.
VaultCall(s, sender, c) ==
    CASE c.fn = "deposit" -> deposit(s, sender, c.amount)
      [] c.fn = "withdraw" -> withdraw(s, sender, c.amount, c.hook)
      [] c.fn = "transferBKD" -> transferBKD(s, sender, c.to, c.amount)
      [] c.fn = "treasuryWithdrawETH" ->
            treasuryWithdrawETH(s, sender, c.to, c.amount, c.hook)


\* ------------------------------------------------------------ LendingPool
RiskRole == {Admin}          \* constructor: _grantRole(RISK_ROLE, admin)
NoAccount == [collateral |-> 0, debt |-> 0, lastAccrued |-> 0]

\* A faulty setParams: the two range checks are missing.
setParamsUnchecked(s, sender, _maxLTVBps, _annualRateBps) ==
    IF sender \notin RiskRole THEN RevertFor(s, Unauthorized, sender)
    ELSE Return(Emit([s EXCEPT !.maxLTVBps = _maxLTVBps,
                               !.annualRateBps = _annualRateBps],
                     Event("ParamsUpdated", ZeroAddr, ZeroAddr, _maxLTVBps, _annualRateBps)))

\* A faulty setParams: the clock of every account restarts at the new rate.
setParamsRestartingClocks(s, sender, _maxLTVBps, _annualRateBps) ==
    IF sender \notin RiskRole THEN RevertFor(s, Unauthorized, sender)
    ELSE IF ~(_maxLTVBps <= LTVCap) THEN Revert(s, "LTV too high")
    ELSE IF ~(_annualRateBps <= RateCap) THEN Revert(s, "APR too high")
    ELSE Return(Emit([s EXCEPT !.maxLTVBps = _maxLTVBps,
                               !.annualRateBps = _annualRateBps,
                               !.accounts = [a \in DOMAIN @ |->
                                                [@[a] EXCEPT !.lastAccrued = s.now]]],
                     Event("ParamsUpdated", ZeroAddr, ZeroAddr, _maxLTVBps, _annualRateBps)))

setParams(s, sender, _maxLTVBps, _annualRateBps) ==
    IF sender \notin RiskRole THEN RevertFor(s, Unauthorized, sender)
    ELSE IF ~(_maxLTVBps <= LTVCap) THEN Revert(s, "LTV too high")
    ELSE IF ~(_annualRateBps <= RateCap) THEN Revert(s, "APR too high")
    ELSE Return(Emit([s EXCEPT !.maxLTVBps = _maxLTVBps,
                               !.annualRateBps = _annualRateBps],
                     Event("ParamsUpdated", ZeroAddr, ZeroAddr, _maxLTVBps, _annualRateBps)))

\* (a.debt * annualRateBps * dt) / (10000 * 365 days), dt in ticks
Interest(debt, rate, dt) == (debt * rate * dt) \div (BpsDenominator * TicksPerYear)

\* A faulty accrual: interest is charged for the first tick of dt only.
accrueFirstTickOnly(s, user) ==
    LET a == s.accounts[user] IN
    IF a.debt = 0 \/ s.now = a.lastAccrued
    THEN [s EXCEPT !.accounts[user].lastAccrued = s.now]
    ELSE [s EXCEPT !.accounts[user].debt = @ + Interest(a.debt, s.annualRateBps, 1),
                   !.accounts[user].lastAccrued = s.now]

\* A faulty accrual: the clock of the account is reset, no interest is added.
accrueWithoutInterest(s, user) ==
    [s EXCEPT !.accounts[user].lastAccrued = s.now]

\* A faulty accrual: without debt the clock of the account is left alone.
accrueKeepingIdleClock(s, user) ==
    LET a == s.accounts[user] IN
    IF a.debt = 0 THEN s
    ELSE
      LET dt == s.now - a.lastAccrued IN
      IF dt = 0 THEN s
      ELSE [s EXCEPT !.accounts[user].debt = @ + Interest(a.debt, s.annualRateBps, dt),
                     !.accounts[user].lastAccrued = s.now]

\* A faulty accrual: the clock of every account is moved, not the user's only.
accrueEveryAccount(s, user) ==
    LET a == s.accounts[user]
        dt == s.now - a.lastAccrued
        debt == IF a.debt = 0 \/ dt = 0 THEN a.debt
                ELSE a.debt + Interest(a.debt, s.annualRateBps, dt)
    IN [s EXCEPT !.accounts =
            [x \in DOMAIN @ |-> IF x = user
                                THEN [@[x] EXCEPT !.debt = debt, !.lastAccrued = s.now]
                                ELSE [@[x] EXCEPT !.lastAccrued = s.now]]]

\* _accrue(user): the world with the user's account accrued to block.timestamp
accrue(s, user) ==
    LET a == s.accounts[user] IN
    IF a.debt = 0 THEN [s EXCEPT !.accounts[user].lastAccrued = s.now]
    ELSE
      LET dt == s.now - a.lastAccrued IN
      IF dt = 0 THEN s
      ELSE [s EXCEPT !.accounts[user].debt = @ + Interest(a.debt, s.annualRateBps, dt),
                     !.accounts[user].lastAccrued = s.now]

\* A faulty limit: the whole collateral may be borrowed.
MaxDebtAllowedWholeCollateral(collateral, ltv) == collateral

\* A faulty limit: the quotient is rounded up instead of truncated.
MaxDebtAllowedRoundedUp(collateral, ltv) ==
    (collateral * ltv + BpsDenominator - 1) \div BpsDenominator

MaxDebtAllowed(collateral, ltv) == (collateral * ltv) \div BpsDenominator

\* A faulty deposit: the collateral is credited and no token is pulled.
depositCollateralWithoutPull(s, sender, amount) ==
    IF s.poolEntered THEN Revert(s, Reentrant)
    ELSE IF ~onlyKYC(s, sender) THEN RevertFor(s, "NotKYCApproved", sender)
    ELSE IF amount = 0 THEN Revert(s, "AmountZero")
    ELSE Return(Emit([accrue(s, sender) EXCEPT !.accounts[sender].collateral = @ + amount],
                     Event("CollateralDeposited", sender, ZeroAddr, amount, 0)))

depositCollateral(s, sender, amount) ==
    IF s.poolEntered THEN Revert(s, Reentrant)
    ELSE
      LET s1 == [s EXCEPT !.poolEntered = TRUE] IN
      IF ~onlyKYC(s1, sender) THEN RevertFor(s, "NotKYCApproved", sender)
      ELSE IF amount = 0 THEN Revert(s, "AmountZero")
      ELSE
        LET s2 == accrue(s1, sender)
            r == transferFrom(s2, PoolAddr, sender, PoolAddr, amount)
        IN
        IF r.err # OK THEN Bubble(s, r)
        ELSE Return([Emit([r.st EXCEPT !.accounts[sender].collateral = @ + amount],
                          Event("CollateralDeposited", sender, ZeroAddr, amount, 0))
                        EXCEPT !.poolEntered = FALSE])

withdrawCollateral(s, sender, amount) ==
    IF s.poolEntered THEN Revert(s, Reentrant)
    ELSE
      LET s1 == [s EXCEPT !.poolEntered = TRUE] IN
      IF ~onlyKYC(s1, sender) THEN RevertFor(s, "NotKYCApproved", sender)
      ELSE IF amount = 0 THEN Revert(s, "AmountZero")
      ELSE
        LET s2 == accrue(s1, sender)
            a == s2.accounts[sender]
        IN
        IF ~(a.collateral >= amount) THEN Revert(s, "Not enough collateral")
        ELSE
          LET newCollateral == a.collateral - amount
              maxDebtAllowed == MaxDebtAllowed(newCollateral, s2.maxLTVBps)
          IN
          IF a.debt > maxDebtAllowed THEN Revert(s, "InsufficientCollateral")
          ELSE
            LET s3 == [s2 EXCEPT !.accounts[sender].collateral = newCollateral]
                r == transfer(s3, PoolAddr, sender, amount)
            IN
            IF r.err # OK THEN Bubble(s, r)
            ELSE Return([Emit(r.st, Event("CollateralWithdrawn", sender, ZeroAddr, amount, 0))
                            EXCEPT !.poolEntered = FALSE])

borrow(s, sender, amount) ==
    IF s.poolEntered THEN Revert(s, Reentrant)
    ELSE
      LET s1 == [s EXCEPT !.poolEntered = TRUE] IN
      IF ~onlyKYC(s1, sender) THEN RevertFor(s, "NotKYCApproved", sender)
      ELSE IF amount = 0 THEN Revert(s, "AmountZero")
      ELSE
        LET s2 == accrue(s1, sender)
            a == s2.accounts[sender]
            maxDebtAllowed == MaxDebtAllowed(a.collateral, s2.maxLTVBps)
        IN
        IF a.debt + amount > maxDebtAllowed THEN Revert(s, "BorrowTooLarge")
        ELSE
          LET s3 == [s2 EXCEPT !.accounts[sender].debt = @ + amount]
              r == transfer(s3, PoolAddr, sender, amount)
          IN
          IF r.err # OK THEN Bubble(s, r)
          ELSE Return([Emit(r.st, Event("Borrowed", sender, ZeroAddr, amount,
                                        r.st.accounts[sender].debt))
                          EXCEPT !.poolEntered = FALSE])

\* A faulty repay: a full repayment resets lastAccrued to zero.
repayClearingClock(s, sender, amount) ==
    IF s.poolEntered THEN Revert(s, Reentrant)
    ELSE
      LET s1 == [s EXCEPT !.poolEntered = TRUE] IN
      IF ~onlyKYC(s1, sender) THEN RevertFor(s, "NotKYCApproved", sender)
      ELSE IF amount = 0 THEN Revert(s, "AmountZero")
      ELSE
        LET s2 == accrue(s1, sender)
            a == s2.accounts[sender]
        IN
        IF ~(a.debt > 0) THEN Revert(s, "No debt")
        ELSE
          LET r == transferFrom(s2, PoolAddr, sender, PoolAddr, amount) IN
          IF r.err # OK THEN Bubble(s, r)
          ELSE IF amount >= a.debt
          THEN
            LET over == amount - a.debt
                s3 == [r.st EXCEPT !.accounts[sender].debt = 0,
                                   !.accounts[sender].lastAccrued = 0]
                r2 == IF over > 0 THEN transfer(s3, PoolAddr, sender, over)
                      ELSE Return(s3)
            IN
            IF r2.err # OK THEN Bubble(s, r2)
            ELSE Return([Emit(r2.st, Event("Repaid", sender, ZeroAddr, amount - over, 0))
                            EXCEPT !.poolEntered = FALSE])
          ELSE
            LET s3 == [r.st EXCEPT !.accounts[sender].debt = @ - amount] IN
            Return([Emit(s3, Event("Repaid", sender, ZeroAddr, amount,
                                   s3.accounts[sender].debt))
                       EXCEPT !.poolEntered = FALSE])

\* A faulty repay: an overpayment is kept by the pool.
repayWithoutRefund(s, sender, amount) ==
    IF s.poolEntered THEN Revert(s, Reentrant)
    ELSE
      LET s1 == [s EXCEPT !.poolEntered = TRUE] IN
      IF ~onlyKYC(s1, sender) THEN RevertFor(s, "NotKYCApproved", sender)
      ELSE IF amount = 0 THEN Revert(s, "AmountZero")
      ELSE
        LET s2 == accrue(s1, sender)
            a == s2.accounts[sender]
        IN
        IF ~(a.debt > 0) THEN Revert(s, "No debt")
        ELSE
          LET r == transferFrom(s2, PoolAddr, sender, PoolAddr, amount) IN
          IF r.err # OK THEN Bubble(s, r)
          ELSE
            LET left == IF amount >= a.debt THEN 0 ELSE a.debt - amount
                s3 == [r.st EXCEPT !.accounts[sender].debt = left,
                                   !.accounts[sender].lastAccrued = s.now]
            IN
            Return([Emit(s3, Event("Repaid", sender, ZeroAddr, amount, left))
                       EXCEPT !.poolEntered = FALSE])

repay(s, sender, amount) ==
    IF s.poolEntered THEN Revert(s, Reentrant)
    ELSE
      LET s1 == [s EXCEPT !.poolEntered = TRUE] IN
      IF ~onlyKYC(s1, sender) THEN RevertFor(s, "NotKYCApproved", sender)
      ELSE IF amount = 0 THEN Revert(s, "AmountZero")
      ELSE
        LET s2 == accrue(s1, sender)
            a == s2.accounts[sender]
        IN
        IF ~(a.debt > 0) THEN Revert(s, "No debt")
        ELSE
          LET r == transferFrom(s2, PoolAddr, sender, PoolAddr, amount) IN
          IF r.err # OK THEN Bubble(s, r)
          ELSE IF amount >= a.debt
          THEN
            LET over == amount - a.debt
                s3 == [r.st EXCEPT !.accounts[sender].debt = 0,
                                   !.accounts[sender].lastAccrued = s.now]
                r2 == IF over > 0 THEN transfer(s3, PoolAddr, sender, over)
                      ELSE Return(s3)
            IN
            IF r2.err # OK THEN Bubble(s, r2)
            ELSE Return([Emit(r2.st, Event("Repaid", sender, ZeroAddr, amount - over, 0))
                            EXCEPT !.poolEntered = FALSE])
          ELSE
            LET s3 == [r.st EXCEPT !.accounts[sender].debt = @ - amount] IN
            Return([Emit(s3, Event("Repaid", sender, ZeroAddr, amount,
                                   s3.accounts[sender].debt))
                       EXCEPT !.poolEntered = FALSE])

\* A faulty getAccount: the stored debt is returned as it is.
getAccountStored(s, user) ==
    LET a == s.accounts[user] IN <<a.collateral, a.debt, a.lastAccrued>>

\* getAccount(user): (collateral, debt projected to block.timestamp, lastAccrued)
getAccount(s, user) ==
    LET a == s.accounts[user] IN
    IF a.debt = 0 THEN <<a.collateral, 0, a.lastAccrued>>
    ELSE
      LET dt == s.now - a.lastAccrued IN
      <<a.collateral, a.debt + Interest(a.debt, s.annualRateBps, dt), a.lastAccrued>>


\* ---------------------------------------------------------------- indexer
\* A log on the chain: its block, its transaction and the event it carries.
\* Logs are kept in chain order (block, then position in the block).
ChainLog(blockNumber, transactionHash, log) ==
    [blockNumber |-> blockNumber, transactionHash |-> transactionHash, log |-> log]

VaultEvents == <<"Deposited", "Withdrawn", "TransferBKD">>
LendingEvents == <<"CollateralDeposited", "CollateralWithdrawn", "Borrowed", "Repaid">>

\* provider.getLogs({address, fromBlock, toBlock, topics: [topic of name]}):
\* the logs of that event in the block range, in chain order.
getLogs(logs, name, fromBlock, toBlock) ==
    SelectSeq(logs, LAMBDA l : /\ l.log.kind = name
                               /\ fromBlock <= l.blockNumber
                               /\ l.blockNumber <= toBlock)

\* The row the indexer builds from a parsed vault log; its timestamp is the
\* block's, which is the block number here.
VaultRow(l) ==
    [ blockNumber |-> l.blockNumber,
      txHash |-> l.transactionHash,
      eventName |-> l.log.kind,
      fromAddr |-> l.log.a,
      toAddr |-> IF l.log.kind = "TransferBKD" THEN l.log.b ELSE "",
      amount |-> IF l.log.kind = "Deposited" THEN l.log.y ELSE l.log.x,
      timestamp |-> l.blockNumber ]

\* The row the indexer builds from a parsed lending log.
LendingRow(l) ==
    [ blockNumber |-> l.blockNumber,
      txHash |-> l.transactionHash,
      eventName |-> l.log.kind,
      fromAddr |-> l.log.a,
      toAddr |-> "",
      amount |-> l.log.x,
      timestamp |-> l.blockNumber ]

\* SELECT MAX(blockNumber) FROM events, with ?? 0 for the empty table
MaxBlockNumber(table) ==
    IF table = <<>> THEN 0
    ELSE CHOOSE b \in {table[i].blockNumber : i \in 1..Len(table)} :
            \A i \in 1..Len(table) : table[i].blockNumber <= b

\* events.sort((a, b) => a.blockNumber - b.blockNumber): a stable sort
RECURSIVE sortByBlockNumber(_)
sortByBlockNumber(s) ==
    IF s = <<>> THEN <<>>
    ELSE
      LET sorted == sortByBlockNumber(SubSeq(s, 1, Len(s) - 1))
          e == s[Len(s)]
          k == Cardinality({i \in 1..Len(sorted) : sorted[i].blockNumber <= e.blockNumber})
      IN SubSeq(sorted, 1, k) \o <<e>> \o SubSeq(sorted, k + 1, Len(sorted))

\* The rows one run of indexOnce is going to insert, in the order of its
\* inserts: the logs of each vault event, then of each lending event, from
\* the block after the highest one in the table up to the latest block,
\* sorted by block number.
indexOnce(logs, table, latest) ==
    LET fromBlock == MaxBlockNumber(table)
        start == IF fromBlock = 0 THEN 0 ELSE fromBlock + 1
        vault(i) == LET g == getLogs(logs, VaultEvents[i], start, latest)
                    IN [j \in 1..Len(g) |-> VaultRow(g[j])]
        lending(i) == LET g == getLogs(logs, LendingEvents[i], start, latest)
                      IN [j \in 1..Len(g) |-> LendingRow(g[j])]
    IN sortByBlockNumber(vault(1) \o vault(2) \o vault(3) \o lending(1)
                            \o lending(2) \o lending(3) \o lending(4))


\* ---------------------------------------------------------------- backend
\* The functions of the deployed KYCRegistry, as the backend's contract
\* object has them: those of KYCRegistry.sol and of AccessControl.
KYCRegistryFunctions ==
    {"COMPLIANCE_ROLE", "pendingKycHash", "isKYCApproved", "requestKYC",
     "approveFromRequest", "approveKYC", "revokeKYC",
     "DEFAULT_ADMIN_ROLE", "hasRole", "getRoleAdmin", "grantRole",
     "revokeRole", "renounceRole", "supportsInterface"}

\* hasFn(contract, fnName): typeof contract?.[fnName] === "function"
hasFn(contract, fnName) == fnName \in contract

\* The on-chain part of POST /admin/kyc/approve-request for a row of
\* kyc_requests: the transaction the admin signer sends, or the error the
\* handler answers with before sending one.
approveOnChain(s, row, level, expiresAt) ==
    IF hasFn(KYCRegistryFunctions, "approveFromRequest")
          /\ hasFn(KYCRegistryFunctions, "pendingRequest")
    THEN LET pending == s.pendingKycHash[row.wallet] IN
         IF pending = NoHash THEN Revert(s, "On-chain pending request not found")
         ELSE IF pending # row.kycHash
         THEN Revert(s, "On-chain pending hash does not match DB kycHash")
         ELSE approveFromRequest(s, Admin, row.wallet, level, expiresAt)
    ELSE IF hasFn(KYCRegistryFunctions, "approveKYC")
    THEN approveKYC(s, Admin, row.wallet)
    ELSE Revert(s, "KYC contract does not support approval methods")

\* The sequence q without its i-th element.
RemoveAt(q, i) == SubSeq(q, 1, i - 1) \o SubSeq(q, i + 1, Len(q))


\* ------------------------------------------------------------ transactions
\* The state after the four constructors have run (deployment at time 1).
Init ==
    /\ now = 1
    /\ kyc = [a \in Addr |-> IF a = Admin
                             THEN [approved |-> TRUE, level |-> 1, expiresAt |-> 0]
                             ELSE NoKYC]
    /\ pendingKycHash = [a \in Addr |-> NoHash]
    /\ complianceRole = {Admin}
    /\ balances = [a \in Addr |-> 0]
    /\ totalSupply = 0
    /\ allowances = {}
    /\ isSystemAddress = {}
    /\ minterRole = {}
    /\ eth = [a \in Addr |-> IF a \in Users THEN InitEth ELSE 0]
    /\ vaultEntered = FALSE
    /\ poolEntered = FALSE
    /\ accounts = [a \in Addr |-> NoAccount]
    /\ maxLTVBps = DefaultMaxLTVBps
    /\ annualRateBps = DefaultAnnualRateBps
    /\ chainLogs = <<>>
    /\ events = <<>>
    /\ running = <<>>
    /\ kycRequests = <<>>
    /\ kycActions = <<>>
    /\ handlers = <<>>

\* A transaction: the world its call returns is committed (a reverted call
\* returns the world it was entered with).  The logs and the record of the
\* callback's calls belong to the transaction, not to the state.
CommitWorld(r) ==
    /\ r.st.totalSupply <= MaxSupply
    /\ now' = r.st.now
    /\ kyc' = r.st.kyc
    /\ pendingKycHash' = r.st.pendingKycHash
    /\ complianceRole' = r.st.complianceRole
    /\ balances' = r.st.balances
    /\ totalSupply' = r.st.totalSupply
    /\ allowances' = r.st.allowances
    /\ isSystemAddress' = r.st.isSystemAddress
    /\ minterRole' = r.st.minterRole
    /\ eth' = r.st.eth
    /\ vaultEntered' = r.st.vaultEntered
    /\ poolEntered' = r.st.poolEntered
    /\ accounts' = r.st.accounts
    /\ maxLTVBps' = r.st.maxLTVBps
    /\ annualRateBps' = r.st.annualRateBps

\* A transaction of a contract model without the indexer in view.
Commit(r) ==
    /\ CommitWorld(r)
    /\ UNCHANGED <<chainLogs, events, running, kycRequests, kycActions, handlers>>

\* A transaction whose logs are kept: they join the block being built,
\* whose number is the block time.
Mine(r) ==
    /\ CommitWorld(r)
    /\ Len(chainLogs) + Len(r.st.logs) <= MaxLogs
    /\ chainLogs' = chainLogs \o
            [i \in 1..Len(r.st.logs) |-> ChainLog(now, Len(chainLogs) + 1, r.st.logs[i])]
    /\ UNCHANGED <<events, running, kycRequests, kycActions, handlers>>

\* ----------------------------------------------------------------- inputs
Amounts == 0..MaxAmt
Hashes == {NoHash, 1, 2}          \* bytes32(0) and two dossier fingerprints
Levels == {1, 2}
Expiries == {0, MaxTime - 1}    \* never, and a timestamp the model passes
LTVs == {DefaultMaxLTVBps, LTVCap, LTVCap + 1}
Rates == {DefaultAnnualRateBps, RateCap, RateCap + 1}

\* A block is mined: block.timestamp advances.
Tick ==
    /\ now < MaxTime
    /\ now' = now + 1
    /\ UNCHANGED <<kycRequests, kycActions, handlers,
                   kyc, pendingKycHash, complianceRole, balances, totalSupply,
                   allowances, isSystemAddress, minterRole, eth, vaultEntered,
                   poolEntered, accounts, maxLTVBps, annualRateBps,
                   chainLogs, events, running>>

\* Each of the following is one external function, called by any sender of
\* U with arguments drawn from the given sets.
RequestKYC(U, H) ==
    \E u \in U, h \in H : Commit(requestKYC(World, u, h))
ApproveFromRequest(U, X, L, E) ==
    \E u \in U, x \in X, l \in L, e \in E :
        Commit(approveFromRequest(World, u, x, l, e))
ApproveKYC(U, X) ==
    \E u \in U, x \in X : Commit(approveKYC(World, u, x))
RevokeKYC(U, X) ==
    \E u \in U, x \in X : Commit(revokeKYC(World, u, x))
GrantComplianceRole(U, X) ==
    \E u \in U, x \in X :
        Commit(grantComplianceRole(World, u, x))

SetSystemAddress(U, X, B) ==
    \E u \in U, a \in X, b \in B :
        Commit(setSystemAddress(World, u, a, b))
GrantMinterRole(U, X) ==
    \E u \in U, a \in X : Commit(grantMinterRole(World, u, a))
Mint(U, X, N) ==
    \E u \in U, a \in X, n \in N :
        Commit(mint(World, u, a, n))
Burn(U, X, N) ==
    \E u \in U, a \in X, n \in N : Commit(burn(World, u, a, n))
Transfer(U, X, N) ==
    \E u \in U, a \in X, n \in N : Commit(transfer(World, u, a, n))
Approve(U, X, B) ==
    \E u \in U, a \in X, b \in B : Commit(approve(World, u, a, b))

Deposit(U, N) ==
    \E u \in U, v \in N :
        /\ eth[u] >= v
        /\ Commit(deposit(World, u, v))
\* H: what the payee's code does when the ETH arrives
Withdraw(U, N, H) ==
    \E u \in U, n \in N : \E h \in (H \cap Hooks(u)) :
        Commit(withdraw(World, u, n, h))
TransferBKD(U, X, N) ==
    \E u \in U, a \in X, n \in N :
        Commit(transferBKD(World, u, a, n))
TreasuryWithdrawETH(U, X, N, H) ==
    \E u \in U, a \in X, n \in N :
        \E h \in (IF u \in TreasuryRole THEN H \cap Hooks(a) ELSE {[kind |-> "accept"]}) :
            Commit(treasuryWithdrawETH(World, u, a, n, h))
Receive(U, N) ==
    \E u \in U, v \in N :
        /\ eth[u] >= v
        /\ Commit(receive(World, u, v))

\* Vault and pool transactions on a chain the indexer reads.
MinedDeposit(U, N) ==
    \E u \in U, v \in N :
        /\ eth[u] >= v
        /\ Mine(deposit(World, u, v))
MinedWithdraw(U, N, H) ==
    \E u \in U, n \in N : \E h \in (H \cap Hooks(u)) :
        Mine(withdraw(World, u, n, h))
MinedDepositCollateral(U, N) ==
    \E u \in U, n \in N : Mine(depositCollateral(World, u, n))
MinedWithdrawCollateral(U, N) ==
    \E u \in U, n \in N : Mine(withdrawCollateral(World, u, n))

\* The timer (or the start of the script) calls indexOnce, unless K runs
\* are in progress: it reads the latest mined block and the table, and
\* collects its rows.
IndexOnceStart(K) ==
    /\ Len(running) < K
    /\ LET rows == indexOnce(chainLogs, events, now - 1) IN
       running' = IF rows = <<>> THEN running ELSE Append(running, rows)
    /\ UNCHANGED <<kycRequests, kycActions, handlers,
                   now, kyc, pendingKycHash, complianceRole, balances, totalSupply,
                   allowances, isSystemAddress, minterRole, eth, vaultEntered,
                   poolEntered, accounts, maxLTVBps, annualRateBps,
                   chainLogs, events>>

\* A run in progress inserts its next row (after awaiting the block's
\* timestamp) and ends with its last one.
IndexOnceInsert ==
    \E i \in 1..Len(running) :
        /\ events' = Append(events, Head(running[i]))
        /\ running' = IF Len(running[i]) = 1
                      THEN SubSeq(running, 1, i - 1) \o SubSeq(running, i + 1, Len(running))
                      ELSE [running EXCEPT ![i] = Tail(@)]
        /\ UNCHANGED <<kycRequests, kycActions, handlers,
                       now, kyc, pendingKycHash, complianceRole, balances, totalSupply,
                       allowances, isSystemAddress, minterRole, eth, vaultEntered,
                       poolEntered, accounts, maxLTVBps, annualRateBps, chainLogs>>

\* A run in progress ends before its next insert: getBlock threw, and the
\* timer's catch logged the error.
IndexOnceFails ==
    \E i \in 1..Len(running) :
        /\ running' = SubSeq(running, 1, i - 1) \o SubSeq(running, i + 1, Len(running))
        /\ UNCHANGED <<kycRequests, kycActions, handlers,
                       now, kyc, pendingKycHash, complianceRole, balances, totalSupply,
                       allowances, isSystemAddress, minterRole, eth, vaultEntered,
                       poolEntered, accounts, maxLTVBps, annualRateBps, chainLogs,
                       events>>

\* POST /kyc/request: the dossier of wallet w, whose fingerprint is h, is
\* stored as PENDING (the signature proves the wallet; a dossier with a nonce
\* the wallet has used is refused, so no two rows share wallet and hash).
KycRequest(W, H) ==
    \E w \in W, h \in H :
        /\ Len(kycRequests) < MaxRequests
        /\ \A i \in 1..Len(kycRequests) :
              ~(kycRequests[i].wallet = w /\ kycRequests[i].kycHash = h)
        /\ kycRequests' = Append(kycRequests,
                [wallet |-> w, kycHash |-> h, status |-> "PENDING"])
        /\ kycActions' = Append(kycActions,
                [requestId |-> Len(kycRequests) + 1, action |-> "SUBMITTED"])
        /\ UNCHANGED <<now, kyc, pendingKycHash, complianceRole, balances, totalSupply,
                       allowances, isSystemAddress, minterRole, eth, vaultEntered,
                       poolEntered, accounts, maxLTVBps, annualRateBps, chainLogs,
                       events, running, handlers>>

\* An admin request arrives: the handler reads the row, answers 404 or 400
\* unless it is PENDING, and reaches its first await.
AdminRequestStart(op, L, E) ==
    \E id \in 1..Len(kycRequests), l \in L, e \in E :
        /\ Len(handlers) < MaxHandlers
        /\ kycRequests[id].status = "PENDING"
        /\ handlers' = Append(handlers,
                [op |-> op, requestId |-> id, level |-> l, expiresAt |-> e,
                 pc |-> "checked"])
        /\ UNCHANGED <<now, kyc, pendingKycHash, complianceRole, balances, totalSupply,
                       allowances, isSystemAddress, minterRole, eth, vaultEntered,
                       poolEntered, accounts, maxLTVBps, annualRateBps, chainLogs,
                       events, running, kycRequests, kycActions>>

\* POST /admin/kyc/approve-request, up to getContracts()
ApproveRequestStart(L, E) == AdminRequestStart("approve", L, E)

\* approve-request sends its transaction and awaits the receipt; when the
\* handler refuses or the transaction reverts, it answers 400 and ends.
ApproveRequestSend ==
    \E i \in 1..Len(handlers) :
        LET h == handlers[i]
            r == approveOnChain(World, kycRequests[h.requestId], h.level, h.expiresAt)
        IN
        /\ h.op = "approve" /\ h.pc = "checked"
        /\ CommitWorld(r)
        /\ handlers' = IF r.err = OK THEN [handlers EXCEPT ![i].pc = "mined"]
                       ELSE RemoveAt(handlers, i)
        /\ UNCHANGED <<chainLogs, events, running, kycRequests, kycActions>>

\* approve-request, after the receipt: UPDATE kyc_requests SET
\* status='APPROVED' WHERE id=?, and the APPROVED row of kyc_actions.
ApproveRequestFinish ==
    \E i \in 1..Len(handlers) :
        LET h == handlers[i] IN
        /\ h.op = "approve" /\ h.pc = "mined"
        /\ kycRequests' = [kycRequests EXCEPT ![h.requestId].status = "APPROVED"]
        /\ kycActions' = Append(kycActions,
                [requestId |-> h.requestId, action |-> "APPROVED"])
        /\ handlers' = RemoveAt(handlers, i)
        /\ UNCHANGED <<now, kyc, pendingKycHash, complianceRole, balances, totalSupply,
                       allowances, isSystemAddress, minterRole, eth, vaultEntered,
                       poolEntered, accounts, maxLTVBps, annualRateBps, chainLogs,
                       events, running>>

\* POST /admin/kyc/reject-request, up to getAdminSigner()
RejectRequestStart == AdminRequestStart("reject", {0}, {0})

\* reject-request, after the await: UPDATE kyc_requests SET
\* status='REJECTED' WHERE id=?, and the REJECTED row of kyc_actions.
RejectRequestFinish ==
    \E i \in 1..Len(handlers) :
        LET h == handlers[i] IN
        /\ h.op = "reject"
        /\ kycRequests' = [kycRequests EXCEPT ![h.requestId].status = "REJECTED"]
        /\ kycActions' = Append(kycActions,
                [requestId |-> h.requestId, action |-> "REJECTED"])
        /\ handlers' = RemoveAt(handlers, i)
        /\ UNCHANGED <<now, kyc, pendingKycHash, complianceRole, balances, totalSupply,
                       allowances, isSystemAddress, minterRole, eth, vaultEntered,
                       poolEntered, accounts, maxLTVBps, annualRateBps, chainLogs,
                       events, running>>

SetParams(U, L, R) ==
    \E u \in U, l \in L, r \in R : Commit(setParams(World, u, l, r))
DepositCollateral(U, N) ==
    \E u \in U, n \in N :
        Commit(depositCollateral(World, u, n))
WithdrawCollateral(U, N) ==
    \E u \in U, n \in N :
        Commit(withdrawCollateral(World, u, n))
Borrow(U, N) ==
    \E u \in U, n \in N : Commit(borrow(World, u, n))
Repay(U, N) ==
    \E u \in U, n \in N : Commit(repay(World, u, n))

\* ---------------------------------------------------------- specifications
\* The registry alone, with every input.
NextRegistry ==
    \/ Tick
    \/ RequestKYC(Users, Hashes)
    \/ ApproveFromRequest(Users, Users, Levels, Expiries)
    \/ ApproveKYC(Users, Users)
    \/ RevokeKYC(Users, Users)
    \/ GrantComplianceRole(Users, Customers)

SpecRegistry == Init /\ [][NextRegistry]_vars


\* Registry, token and vault: customers are verified or revoked by the admin.
NextVault ==
    \/ RequestKYC(Customers, {1})
    \/ ApproveKYC({Admin}, Customers)
    \/ RevokeKYC({Admin}, Users)
    \/ SetSystemAddress(Users, {VaultAddr}, BOOLEAN)
    \/ GrantMinterRole(Users, {VaultAddr, Admin})
    \/ Mint(Users, Users, {1})
    \/ Burn(Users, Users, {1})
    \/ Transfer(Users, Users, 1..MaxAmt)
    \/ Approve(Users, {VaultAddr}, {TRUE})
    \/ Deposit(Users, Amounts)
    \/ Withdraw(Users, Amounts, AllHooks)
    \/ TransferBKD(Users, Users, Amounts)
    \/ TreasuryWithdrawETH(Users, Users, 1..MaxAmt, AllHooks)
    \/ Receive(Users, {1})

SpecVault == Init /\ [][NextVault]_vars


\* Token, vault deposits and the lending pool, with time passing.  The admin
\* verifies customers until MaxTime - 1, so that their approval runs out.
NextPool ==
    \/ Tick
    \/ RequestKYC(Customers, {1})
    \/ ApproveFromRequest({Admin}, Customers, {1}, {MaxTime - 1})
    \/ SetSystemAddress({Admin}, {PoolAddr}, {TRUE})
    \/ GrantMinterRole({Admin}, {VaultAddr})
    \/ Approve(Users, {PoolAddr}, {TRUE})
    \/ Deposit(Users, 1..MaxAmt)
    \/ SetParams(Users, LTVs, Rates)
    \/ DepositCollateral(Users, Amounts)
    \/ WithdrawCollateral(Users, Amounts)
    \/ Borrow(Users, Amounts)
    \/ Repay(Users, Amounts)

SpecPool == Init /\ [][NextPool]_vars

\* The four contracts together: the admin configures and supervises, the
\* customers use the vault and the pool; payees take or refuse their ETH.
Next ==
    \/ Tick
    \/ RequestKYC(Customers, {1})
    \/ ApproveFromRequest({Admin}, Customers, {1}, {0})
    \/ ApproveKYC({Admin}, Customers)
    \/ RevokeKYC({Admin}, Customers)
    \/ SetSystemAddress({Admin}, Pools, {TRUE})
    \/ GrantMinterRole({Admin}, {VaultAddr})
    \/ Mint(Users, Users, {1})
    \/ Burn(Users, Users, {1})
    \/ Transfer(Users, Users, {1})
    \/ Approve(Customers, Pools, {TRUE})
    \/ Deposit(Customers, 1..MaxAmt)
    \/ Withdraw(Customers, {1}, SimpleHooks)
    \/ TransferBKD(Customers, Users, {1})
    \/ TreasuryWithdrawETH({Admin}, {Admin}, {1}, SimpleHooks)
    \/ Receive({Admin}, {1})
    \/ SetParams({Admin}, {LTVCap}, {RateCap})
    \/ DepositCollateral(Customers, 1..MaxAmt)
    \/ WithdrawCollateral(Customers, {1})
    \/ Borrow(Customers, {1})
    \/ Repay(Customers, 1..MaxAmt)

Spec == Init /\ [][Next]_vars

\* The same, where the admin also marks customers as system addresses.
NextWithSystemCustomers ==
    \/ Next
    \/ SetSystemAddress({Admin}, Customers, {TRUE})

SpecSystemCustomers == Init /\ [][NextWithSystemCustomers]_vars

\* The pool, where holders also pass tokens to each other directly.
NextPoolWithTransfers ==
    \/ NextPool
    \/ Transfer(Users, Users, 1..MaxAmt)

SpecPoolWithTransfers == Init /\ [][NextPoolWithTransfers]_vars

\* The indexer behind the vault and the pool: the admin, approved by the
\* constructor, sets the contracts up and uses them; blocks are mined and
\* indexOnce runs one at a time.
NextIndexer ==
    \/ Tick
    \/ GrantMinterRole({Admin}, {VaultAddr})
    \/ SetSystemAddress({Admin}, {PoolAddr}, {TRUE})
    \/ Approve({Admin}, {PoolAddr}, {TRUE})
    \/ MinedDeposit({Admin}, {1})
    \/ MinedWithdraw({Admin}, {1}, {[kind |-> "accept"]})
    \/ MinedDepositCollateral({Admin}, {1})
    \/ MinedWithdrawCollateral({Admin}, {1})
    \/ IndexOnceStart(1)
    \/ IndexOnceInsert

SpecIndexer == Init /\ [][NextIndexer]_vars

\* Token, vault and pool at one block time, where the admin sets and clears
\* the system-address flag of the vault and of the pool.
NextExemptions ==
    \/ RequestKYC(Customers, {1})
    \/ ApproveKYC({Admin}, Customers)
    \/ SetSystemAddress({Admin}, Pools, BOOLEAN)
    \/ GrantMinterRole({Admin}, {VaultAddr, Admin})
    \/ Mint({Admin}, Users, {1})
    \/ Burn({Admin}, Users, {1})
    \/ Transfer(Users, Addr, {1})
    \/ Approve(Customers, Pools, {TRUE})
    \/ Deposit(Customers, {1})
    \/ TransferBKD(Customers, Users, {1})
    \/ DepositCollateral(Customers, {1})
    \/ WithdrawCollateral(Customers, {1})
    \/ Borrow(Customers, {1})
    \/ Repay(Customers, {1})

SpecExemptions == Init /\ [][NextExemptions]_vars

\* The vault as deployed, the only minter, and never swept: no
\* treasuryWithdrawETH, as a transaction or from a payee's callback.
NoSweepHooks ==
    {h \in AllHooks : h.kind = "reenter" => h.call.fn # "treasuryWithdrawETH"}

NextVaultWithoutSweep ==
    \/ RequestKYC(Customers, {1})
    \/ ApproveKYC({Admin}, Customers)
    \/ RevokeKYC({Admin}, Users)
    \/ SetSystemAddress(Users, {VaultAddr}, BOOLEAN)
    \/ GrantMinterRole(Users, {VaultAddr})
    \/ Mint(Users, Users, {1})
    \/ Burn(Users, Users, {1})
    \/ Transfer(Users, Users, 1..MaxAmt)
    \/ Approve(Users, {VaultAddr}, {TRUE})
    \/ Deposit(Users, Amounts)
    \/ Withdraw(Users, Amounts, NoSweepHooks)
    \/ TransferBKD(Users, Users, Amounts)
    \/ Receive(Users, {1})

SpecVaultWithoutSweep == Init /\ [][NextVaultWithoutSweep]_vars

\* The indexer as main() runs it: the timer starts indexOnce every three
\* seconds whether or not the run before has finished (two at a time here),
\* and a run may fail between two inserts.
NextIndexerOnTimer ==
    \/ Tick
    \/ GrantMinterRole({Admin}, {VaultAddr})
    \/ MinedDeposit({Admin}, {1})
    \/ MinedWithdraw({Admin}, {1}, {[kind |-> "accept"]})
    \/ IndexOnceStart(2)
    \/ IndexOnceInsert
    \/ IndexOnceFails

SpecIndexerOnTimer == Init /\ [][NextIndexerOnTimer]_vars

\* The backend's KYC console over the registry: customers file dossiers
\* with the backend and publish fingerprints on chain; the admin's approve
\* and reject requests are handled concurrently.
NextBackend ==
    \/ RequestKYC(Customers, Hashes)
    \/ KycRequest(Customers, Hashes \ {NoHash})
    \/ ApproveRequestStart(Levels, Expiries)
    \/ ApproveRequestSend
    \/ ApproveRequestFinish
    \/ RejectRequestStart
    \/ RejectRequestFinish

SpecBackend == Init /\ [][NextBackend]_vars

\* ================================================================= claims
RECURSIVE SumOver(_, _)
SumOver(f, S) ==
    IF S = {} THEN 0
    ELSE LET a == CHOOSE x \in S : TRUE IN f[a] + SumOver(f, S \ {a})

\* C1: in every reachable state (after any sequence of mints, burns and
\* transfers, direct or through the vault and the pool, successful or failed)
\* the balances of all accounts add up to totalSupply and none is negative.
C1_Conservation ==
    /\ SumOver(balances, Addr) = totalSupply
    /\ \A a \in Addr : balances[a] >= 0

\* C1 witness: tokens minted by the vault have moved to the admin and into
\* the pool's custody.
C1_Witness ==
    /\ totalSupply >= 2
    /\ balances[Admin] >= 1
    /\ balances[PoolAddr] >= 1

\* The call was stopped by the token's KYC check on `a`, and changed nothing.
StoppedFor(r, a) == r.err = "NotKYCApproved" /\ r.who = a /\ r.st = World
\* The allowance check of transferFrom lets `spender` move `value` of `owner`.
AllowanceCovers(owner, spender, value) ==
    <<owner, spender>> \in allowances \/ value = 0

\* C2: for an account `a` that is neither a system address nor KYC-approved,
\* every mint to a, burn from a and transfer from or to a fails and changes
\* nothing.  A caller without MINTER_ROLE is stopped with
\* AccessControlUnauthorizedAccount and a spender without allowance with
\* ERC20InsufficientAllowance; every other such call fails with
\* NotKYCApproved, naming a, or naming the sender of a transfer to a when
\* that sender is itself neither exempt nor approved (the sender is checked
\* first).
C2_KycGate ==
    \A a \in Addr : ~KycExempt(World, a) =>
        /\ \A m \in Addr, n \in Amounts :
              IF m \in minterRole
              THEN /\ StoppedFor(mint(World, m, a, n), a)
                   /\ StoppedFor(burn(World, m, a, n), a)
              ELSE /\ mint(World, m, a, n) = RevertFor(World, Unauthorized, m)
                   /\ burn(World, m, a, n) = RevertFor(World, Unauthorized, m)
        /\ \A x \in Addr, n \in Amounts :
              /\ StoppedFor(transfer(World, a, x, n), a)
              /\ StoppedFor(transfer(World, x, a, n),
                            IF KycExempt(World, x) THEN a ELSE x)
              /\ \A sp \in Addr :
                    /\ IF AllowanceCovers(a, sp, n)
                       THEN StoppedFor(transferFrom(World, sp, a, x, n), a)
                       ELSE transferFrom(World, sp, a, x, n)
                              = RevertFor(World, "ERC20InsufficientAllowance", sp)
                    /\ IF AllowanceCovers(x, sp, n)
                       THEN StoppedFor(transferFrom(World, sp, x, a, n),
                                       IF KycExempt(World, x) THEN a ELSE x)
                       ELSE transferFrom(World, sp, x, a, n)
                              = RevertFor(World, "ERC20InsufficientAllowance", sp)

\* C2 witness: an account that holds tokens has lost its approval; a minter
\* and an approved holder try to credit and debit it and are stopped.
C2_Witness ==
    \E a \in Users, x \in Users, m \in minterRole :
        /\ ~KycExempt(World, a) /\ balances[a] >= 1
        /\ KycExempt(World, x) /\ balances[x] >= 1
        /\ StoppedFor(mint(World, m, a, 1), a)
        /\ StoppedFor(burn(World, m, a, 1), a)
        /\ StoppedFor(transfer(World, x, a, 1), a)
        /\ StoppedFor(transfer(World, a, x, 1), a)

\* C2 as stated: every mint to a and burn from a by a minter, and every
\* transfer from a or to a, fails with NotKYCApproved(a).
C2_AsStated ==
    \A a \in Addr : ~KycExempt(World, a) =>
        /\ \A m \in minterRole, n \in Amounts :
              /\ StoppedFor(mint(World, m, a, n), a)
              /\ StoppedFor(burn(World, m, a, n), a)
        /\ \A x \in Addr, n \in Amounts :
              /\ StoppedFor(transfer(World, a, x, n), a)
              /\ StoppedFor(transfer(World, x, a, n), a)

\* The account's stored debt is within the loan-to-value limit.
WithinLTV(s, u) ==
    s.accounts[u].debt <= (s.accounts[u].collateral * s.maxLTVBps) \div BpsDenominator

\* C3: in the state right after a successful borrow or withdrawCollateral
\* by an account, its stored debt (accrued at the start of the call) is at
\* most floor(collateral * maxLTVBps / 10000).
C3_LoanToValue ==
    \A u \in Users, n \in Amounts :
        /\ LET r == borrow(World, u, n) IN r.err = OK => WithinLTV(r.st, u)
        /\ LET r == withdrawCollateral(World, u, n) IN r.err = OK => WithinLTV(r.st, u)

\* C3 witness: an account in debt can both borrow more and take collateral
\* out, and one more unit of either would be refused.
C3_Witness ==
    \E u \in Users :
        /\ accounts[u].debt >= 1
        /\ borrow(World, u, 1).err = OK
        /\ withdrawCollateral(World, u, 1).err = OK
        /\ borrow(World, u, 2).err = "BorrowTooLarge"
        /\ withdrawCollateral(World, u, 2).err = "InsufficientCollateral"

\* P holds of the result of every call a user can make in the current world,
\* to any function of the four contracts, with any of the inputs.
EveryCall(P(_)) ==
    /\ \A u \in Users, h \in Hashes : P(requestKYC(World, u, h))
    /\ \A u \in Users, x \in Users, l \in Levels, e \in Expiries :
          P(approveFromRequest(World, u, x, l, e))
    /\ \A u \in Users, x \in Users :
          /\ P(approveKYC(World, u, x))
          /\ P(revokeKYC(World, u, x))
          /\ P(grantComplianceRole(World, u, x))
          /\ P(grantMinterRole(World, u, x))
    /\ \A u \in Users, x \in Addr, b \in BOOLEAN :
          /\ P(setSystemAddress(World, u, x, b))
          /\ P(approve(World, u, x, b))
    /\ \A u \in Users, x \in Addr, n \in Amounts :
          /\ P(mint(World, u, x, n))
          /\ P(burn(World, u, x, n))
          /\ P(transfer(World, u, x, n))
          /\ \A y \in Users : P(transferFrom(World, u, x, y, n))
    /\ \A u \in Users, n \in Amounts :
          /\ P(deposit(World, u, n))
          /\ P(receive(World, u, n))
          /\ \A h \in Hooks(u) : P(withdraw(World, u, n, h))
          /\ \A x \in Users :
                /\ P(transferBKD(World, u, x, n))
                /\ \A h \in Hooks(x) : P(treasuryWithdrawETH(World, u, x, n, h))
          /\ P(depositCollateral(World, u, n))
          /\ P(withdrawCollateral(World, u, n))
          /\ P(borrow(World, u, n))
          /\ P(repay(World, u, n))
    /\ \A u \in Users, l \in LTVs, r \in Rates : P(setParams(World, u, l, r))

\* C4: a call that fails, with whatever error, leaves everything as it was
\* before the call: the registry's records and pending hashes, balances,
\* totalSupply, system addresses, allowances and roles, the ETH of every
\* address, every lending account (collateral, debt and lastAccrued), the
\* risk parameters, and no event is logged.
C4_Atomic == EveryCall(LAMBDA r : r.err # OK => r.st = World)

\* C4 witness: a borrower whose debt has interest to accrue asks for more
\* than the limit allows; the accrual the call starts with is not kept.
C4_Witness ==
    \E u \in Users :
        /\ accounts[u].debt >= 1
        /\ accrue(World, u).accounts[u].debt > accounts[u].debt
        /\ borrow(World, u, 1).err = "BorrowTooLarge"
        /\ borrow(World, u, 1).st.accounts = accounts

\* withdraw(amount) by u passes its checks and burns, and the ETH call to u
\* then fails: the vault holds less than amount, or u's code reverts.
PayoutFails(u, n, h) ==
    LET s1 == [World EXCEPT !.vaultEntered = TRUE]
        b == burn(s1, VaultAddr, u, n)
    IN /\ ~vaultEntered /\ onlyKYC(World, u) /\ n > 0
       /\ b.err = OK
       /\ ~EthCall(b.st, VaultAddr, u, n, h).ok

\* C5: when the ETH payout of withdraw(amount) fails, the call reverts with
\* "ETH transfer failed" and the burn is not kept: the caller's balance,
\* totalSupply and the vault's ETH are as before the call and no Withdrawn
\* event is logged.
C5_PayoutRollback ==
    \A u \in Users, n \in Amounts : \A h \in Hooks(u) :
        PayoutFails(u, n, h) =>
            LET r == withdraw(World, u, n, h) IN
            /\ r.err = "ETH transfer failed"
            /\ r.st.balances = balances
            /\ r.st.totalSupply = totalSupply
            /\ r.st.eth = eth
            /\ \A i \in 1..Len(r.st.logs) : r.st.logs[i].kind # "Withdrawn"

\* C5 witness: the payout of a holder's withdraw fails both ways, because
\* the payee refuses the ETH and because the vault no longer holds it.
C5_Witness ==
    \E u \in Users, v \in Users :
        /\ PayoutFails(u, 1, [kind |-> "reject"])
        /\ PayoutFails(v, 2, [kind |-> "accept"])
        /\ withdraw(World, u, 1, [kind |-> "reject"]).err = "ETH transfer failed"
        /\ withdraw(World, v, 2, [kind |-> "accept"]).err = "ETH transfer failed"

\* Every call the payee made into the vault from its callback was rejected.
NestedCallsRejected(r) ==
    \A i \in 1..Len(r.st.calls) : r.st.calls[i].err # OK

\* C6: while withdraw or treasuryWithdrawETH is inside its ETH payout, every
\* call the payee makes back into the vault (deposit, withdraw, transferBKD,
\* treasuryWithdrawETH) is rejected.
C6_NoReentry ==
    \A u \in Users, n \in Amounts : \A h \in Hooks(u) :
        /\ NestedCallsRejected(withdraw(World, u, n, h))
        /\ \A t \in Users : NestedCallsRejected(treasuryWithdrawETH(World, t, u, n, h))

\* C6 witness: a holder with TREASURY_ROLE withdraws 1 and, from the
\* callback that receives it, has the vault pay out 1 more: one token is
\* burned and the vault is 2 ETH poorer.
C6_Witness ==
    \E u \in Users :
        LET c == [fn |-> "treasuryWithdrawETH", to |-> u, amount |-> 1,
                  hook |-> [kind |-> "accept"]]
            r == withdraw(World, u, 1, [kind |-> "reenter", call |-> c, propagate |-> TRUE])
        IN /\ r.err = OK
           /\ r.st.totalSupply = totalSupply - 1
           /\ r.st.eth[VaultAddr] = eth[VaultAddr] - 2
           /\ r.st.eth[u] = eth[u] + 2

\* The caller holds COMPLIANCE_ROLE and is itself approved and not expired.
MayDecide(u) == u \in complianceRole /\ isKYCApproved(World, u)
Compliant(a) == isKYCApproved(World, a)
\* This step is a successful approval of `a`.
ApprovalOf(a) ==
    \/ \E u \in Users, l \in Levels, e \in Expiries :
          LET r == approveFromRequest(World, u, a, l, e)
          IN r.err = OK /\ kyc' = r.st.kyc
    \/ \E u \in Users :
          LET r == approveKYC(World, u, a) IN r.err = OK /\ kyc' = r.st.kyc

\* Approvals and revocations succeed for no caller but one that may decide,
\* and change nothing otherwise.
C7_OnlyCompliantOfficers ==
    \A u \in Users, x \in Users :
        /\ \A l \in Levels, e \in Expiries :
              LET r == approveFromRequest(World, u, x, l, e)
              IN IF MayDecide(u) THEN r.err \notin {"Not compliance", "Admin must be KYC-approved"}
                 ELSE r.err # OK /\ r.st = World
        /\ LET r == approveKYC(World, u, x)
           IN IF MayDecide(u) THEN r.err \notin {"Not compliance", "Admin must be KYC-approved"}
              ELSE r.err # OK /\ r.st = World
        /\ LET r == revokeKYC(World, u, x)
           IN IF MayDecide(u) THEN r.err = OK
              ELSE r.err # OK /\ r.st = World

\* C7: approveFromRequest, approveKYC and revokeKYC succeed only for a
\* caller that holds COMPLIANCE_ROLE and is itself approved and not expired
\* at the time of the call; a role holder whose record is revoked or expired
\* can approve or revoke nobody; and an account is compliant only from a
\* successful approval of it, except the admin, approved by the constructor.
C7_OfficerGate ==
    /\ \A a \in Addr : Compliant(a) => a = Admin
    /\ []C7_OnlyCompliantOfficers
    /\ [][\A a \in Addr : (~Compliant(a) /\ Compliant(a)') => ApprovalOf(a)]_vars

\* C7 witness: the admin's own approval has run out, so its approval of a
\* pending request is refused, while a second officer's is accepted.
C7_Witness ==
    \E v \in Users \ {Admin}, x \in Users :
        /\ Admin \in complianceRole /\ kyc[Admin].approved /\ ~Compliant(Admin)
        /\ pendingKycHash[x] # NoHash
        /\ approveKYC(World, Admin, x).err = "Admin must be KYC-approved"
        /\ revokeKYC(World, Admin, v).err = "Admin must be KYC-approved"
        /\ MayDecide(v)
        /\ approveKYC(World, v, x).err = OK

\* The call was stopped by onlyRole for `u`, and changed nothing.
Refused(r, u) == r = RevertFor(World, Unauthorized, u)
\* onlyRole decides: a holder is not stopped by it, anyone else is refused.
RoleDecides(holds, r, u) ==
    IF holds THEN r.err # Unauthorized ELSE Refused(r, u)

\* C8: mint and burn succeed only for a holder of MINTER_ROLE,
\* setSystemAddress only for the token's admin, treasuryWithdrawETH only for
\* a holder of TREASURY_ROLE and setParams only for a holder of RISK_ROLE;
\* the same call by anyone else fails with AccessControlUnauthorizedAccount
\* and changes nothing.
C8_Capabilities ==
    \A u \in Addr :
        /\ \A x \in Addr, n \in Amounts :
              /\ RoleDecides(u \in minterRole, mint(World, u, x, n), u)
              /\ RoleDecides(u \in minterRole, burn(World, u, x, n), u)
        /\ \A x \in Addr, b \in BOOLEAN :
              RoleDecides(u = Admin, setSystemAddress(World, u, x, b), u)
        /\ \A x \in Users, n \in Amounts : \A h \in Hooks(x) :
              RoleDecides(u \in TreasuryRole, treasuryWithdrawETH(World, u, x, n, h), u)
        /\ \A l \in LTVs, r \in Rates :
              RoleDecides(u \in RiskRole, setParams(World, u, l, r), u)

\* C8 witness: each privileged call succeeds for the holder of its role and
\* the same call by a customer is refused.
C8_Witness ==
    \E u \in Customers :
        /\ mint(World, VaultAddr, u, 1).err = OK
        /\ Refused(mint(World, u, u, 1), u)
        /\ burn(World, VaultAddr, u, 1).err = OK
        /\ Refused(burn(World, u, u, 1), u)
        /\ setSystemAddress(World, Admin, u, TRUE).err = OK
        /\ Refused(setSystemAddress(World, u, u, TRUE), u)
        /\ treasuryWithdrawETH(World, Admin, u, 1, [kind |-> "accept"]).err = OK
        /\ Refused(treasuryWithdrawETH(World, u, u, 1, [kind |-> "accept"]), u)
        /\ setParams(World, Admin, LTVCap, RateCap).err = OK
        /\ Refused(setParams(World, u, LTVCap, RateCap), u)

NoPending == "No on-chain pending request"
\* The world the next transaction starts from: the state a call left.
After(r) == [r.st EXCEPT !.logs = <<>>, !.calls = <<>>]
\* Every approval of `x` attempted in world w, through either entry point.
ApprovalsOf(w, v, x) ==
    {approveFromRequest(w, v, x, l, e) : l \in Levels, e \in Expiries}
        \cup {approveKYC(w, v, x)}
\* In the world w left by an approval of x: the hash is cleared, and every
\* further approval of x fails and changes nothing, with NoPending when its
\* caller passes onlyComplianceApproved.
Consumed(w, x) ==
    /\ w.pendingKycHash[x] = NoHash
    /\ \A v \in Users : \A r2 \in ApprovalsOf(w, v, x) :
          /\ r2.err # OK
          /\ r2.st = w
          /\ onlyComplianceApproved(w, v) = OK => r2.err = NoPending

Restored(w, u) ==
    /\ w.eth[u] = eth[u]
    /\ w.balances[u] = balances[u]
    /\ w.eth[VaultAddr] = eth[VaultAddr]
    /\ w.totalSupply = totalSupply

\* C10: for an approved account that holds X > 0 ETH, deposit of X succeeds
\* (the vault holding MINTER_ROLE); withdraw(X) by the same account right
\* after succeeds if the account's code takes the ETH, fails with
\* "ETH transfer failed" and nothing else otherwise; and when it succeeds
\* without a call from the callback having gone through, the account's ETH
\* and tokens, the vault's ETH and totalSupply are as before the deposit.
C10_RoundTrip ==
    \A u \in Users, x \in 1..MaxAmt :
        LET d == deposit(World, u, x) IN
        /\ (isKYCApproved(World, u) /\ eth[u] >= x /\ VaultAddr \in minterRole
                /\ ~vaultEntered) => d.err = OK
        /\ d.err = OK =>
              /\ withdraw(After(d), u, x, [kind |-> "accept"]).err = OK
              /\ \A h \in Hooks(u) :
                    LET w == withdraw(After(d), u, x, h) IN
                    /\ w.err \in {OK, "ETH transfer failed"}
                    /\ (w.err = OK /\ NestedCallsRejected(w)) => Restored(w.st, u)

\* C10 witness: a holder deposits 2 more and withdraws 2: with code that
\* takes the ETH everything is back, with code that refuses it the withdraw
\* fails.
C10_Witness ==
    \E u \in Users :
        LET d == deposit(World, u, 2)
            w == withdraw(After(d), u, 2, [kind |-> "accept"])
        IN /\ balances[u] >= 1 /\ eth[VaultAddr] >= 1
           /\ d.err = OK /\ d.st.balances[u] = balances[u] + 2
           /\ w.err = OK /\ Restored(w.st, u)
           /\ withdraw(After(d), u, 2, [kind |-> "reject"]).err = "ETH transfer failed"

\* C10 as stated: after a successful deposit of X, withdraw(X) succeeds and
\* restores the four quantities, whatever the account's code does.
C10_AsStated ==
    \A u \in Users, x \in 1..MaxAmt :
        LET d == deposit(World, u, x) IN
        d.err = OK =>
            \A h \in Hooks(u) :
                LET w == withdraw(After(d), u, x, h) IN
                w.err = OK /\ Restored(w.st, u)

\* The world w at block time t.
AtTime(w, t) == [w EXCEPT !.now = t]
\* debt * annualRateBps * dt reaches one whole unit of 10000 * 365 days
WholeUnitOfInterest(w, u) ==
    w.accounts[u].debt * w.annualRateBps * (w.now - w.accounts[u].lastAccrued)
        >= BpsDenominator * TicksPerYear

\* C11: for an account in debt, _accrue at block times that do not go back
\* never lowers the stored debt; a call with dt > 0 adds
\* floor(debt * annualRateBps * dt / (10000 * 365 days)), which is more than
\* nothing exactly when debt * annualRateBps * dt >= 10000 * 365 days.
C11_AccrualMonotone ==
    \A u \in Users : accounts[u].debt > 0 =>
        /\ now >= accounts[u].lastAccrued
        /\ \A t1 \in now..MaxTime, t2 \in now..MaxTime : t1 <= t2 =>
              LET w0 == AtTime(World, t1)
                  w1 == accrue(w0, u)
                  w2 == accrue(AtTime(w1, t2), u)
              IN /\ w1.accounts[u].debt >= accounts[u].debt
                 /\ w2.accounts[u].debt >= w1.accounts[u].debt
                 /\ (w1.accounts[u].debt > accounts[u].debt) <=> WholeUnitOfInterest(w0, u)
                 /\ accrue(w1, u) = w1

\* C11 witness: a debt whose interest over the time passed so far truncates
\* to nothing, and is a whole unit one tick later.
C11_Witness ==
    \E u \in Users :
        /\ accounts[u].debt > 0 /\ now > accounts[u].lastAccrued /\ now < MaxTime
        /\ accrue(World, u).accounts[u].debt = accounts[u].debt
        /\ accrue(World, u).accounts[u].lastAccrued = now
        /\ accrue(AtTime(World, now + 1), u).accounts[u].debt > accounts[u].debt

\* C11 as stated: every accrual with dt > 0 strictly increases the debt.
C11_AsStated ==
    \A u \in Users :
        (accounts[u].debt > 0 /\ now > accounts[u].lastAccrued) =>
            accrue(World, u).accounts[u].debt > accounts[u].debt

\* Every value a KYC record can hold.
KYCRecords == [approved : BOOLEAN, level : {0} \cup Levels, expiresAt : 0..MaxTime]
\* This step is a successful revocation of `a`.
RevocationOf(a) ==
    \E u \in Users :
        LET r == revokeKYC(World, u, a) IN r.err = OK /\ kyc' = r.st.kyc

\* isKYCApproved is true exactly for an approved record that has no expiry
\* or whose expiry has not passed, whatever the record and the block time.
C12_ExactlyApprovedAndNotExpired ==
    /\ \A a \in Addr, k \in KYCRecords, t \in 1..MaxTime :
          isKYCApproved([World EXCEPT !.kyc[a] = k, !.now = t], a)
              <=> (k.approved /\ (k.expiresAt = 0 \/ t <= k.expiresAt))
    /\ \A a \in Addr, t \in 1..MaxTime :
          isKYCApproved([World EXCEPT !.kyc[a] = NoKYC, !.now = t], a) = FALSE

\* C12: isKYCApproved(user) is true exactly when the record has approved set
\* and expiresAt is 0 or block.timestamp <= expiresAt; a user without record
\* is not approved; a user approved with expiresAt 0 stays approved as time
\* passes, until its record is rewritten by a revocation or a new approval; a
\* user approved until E > 0 is no longer approved once block.timestamp > E,
\* by the passing of time alone.  (The function is a view: it has no state
\* to change.)
C12_IsKYCApproved ==
    /\ []C12_ExactlyApprovedAndNotExpired
    /\ [][\A a \in Addr :
            /\ (Compliant(a) /\ kyc[a].expiresAt = 0 /\ ~Compliant(a)')
                  => (RevocationOf(a) \/ ApprovalOf(a))
            /\ (kyc'[a] = kyc[a] /\ kyc[a].approved /\ kyc[a].expiresAt > 0)
                  => (Compliant(a)' <=> now' <= kyc[a].expiresAt)]_vars

\* C12 witness: one user is approved without expiry, another until this very
\* block time, after which it is no longer approved.
C12_Witness ==
    \E a \in Users, b \in Users :
        /\ kyc[a].approved /\ kyc[a].expiresAt = 0 /\ Compliant(a)
        /\ kyc[b].approved /\ kyc[b].expiresAt = now /\ Compliant(b)
        /\ ~isKYCApproved(AtTime(World, now + 1), b)
        /\ isKYCApproved(AtTime(World, now + 1), a)

\* The call was stopped by onlyKYC for `a`, and changed nothing.
NotApproved(r, a) == r = RevertFor(World, "NotKYCApproved", a)

\* Every vault and pool function called by a user that is not approved (or
\* no longer) is stopped by onlyKYC, and so is transferBKD to that user.
C13_CallsStopped ==
    \A a \in Users : ~Compliant(a) =>
        \A n \in Amounts :
            /\ eth[a] >= n => NotApproved(deposit(World, a, n), a)
            /\ \A h \in Hooks(a) : NotApproved(withdraw(World, a, n, h), a)
            /\ \A x \in Users :
                  /\ NotApproved(transferBKD(World, a, x, n), a)
                  /\ NotApproved(transferBKD(World, x, a, n),
                                 IF Compliant(x) THEN a ELSE x)
            /\ NotApproved(depositCollateral(World, a, n), a)
            /\ NotApproved(withdrawCollateral(World, a, n), a)
            /\ NotApproved(borrow(World, a, n), a)
            /\ NotApproved(repay(World, a, n), a)

\* C13: while a user is not approved (never, revoked or expired), every
\* deposit, withdraw, transferBKD, depositCollateral, withdrawCollateral,
\* borrow and repay it calls fails with NotKYCApproved, and a transferBKD to
\* it fails too; for as long as it stays so, its collateral and stored debt
\* do not change, and neither does its token balance unless it is marked as
\* a system address.
C13_GatedWhileNotApproved ==
    /\ []C13_CallsStopped
    /\ [][\A a \in Addr : (~Compliant(a) /\ ~Compliant(a)') =>
            /\ accounts'[a] = accounts[a]
            /\ a \notin isSystemAddress => balances'[a] = balances[a]]_vars

\* C13 witness: a customer holding tokens, collateral and debt has lost its
\* approval; whatever it calls is stopped.
C13_Witness ==
    \E a \in Customers :
        /\ ~Compliant(a) /\ a \notin isSystemAddress
        /\ balances[a] >= 1 /\ accounts[a].collateral >= 1 /\ accounts[a].debt >= 1
        /\ NotApproved(withdraw(World, a, 1, [kind |-> "accept"]), a)
        /\ NotApproved(repay(World, a, 1), a)
        /\ NotApproved(transferBKD(World, Admin, a, 1), a)

\* C13 as stated: the token balance, collateral and debt of a user that
\* stays not approved do not change.
C13_AsStated ==
    [][\A a \in Users : (~Compliant(a) /\ ~Compliant(a)') =>
            /\ accounts'[a].collateral = accounts[a].collateral
            /\ accounts'[a].debt = accounts[a].debt
            /\ balances'[a] = balances[a]]_vars

\* World w differs from the current one in nothing but the token balances,
\* totalSupply, the ETH balances and the logs.
OnlyFundsMoved(w) ==
    [w EXCEPT !.balances = balances, !.totalSupply = totalSupply,
              !.eth = eth, !.logs = <<>>] = World

\* C14: deposit of amount > 0 by an approved caller (the vault holding
\* MINTER_ROLE) raises the caller's token balance, totalSupply and the
\* vault's ETH by exactly amount, takes amount ETH from the caller and
\* changes no other balance; deposit of 0 fails with "Deposit must be > 0".
C14_DepositEffect ==
    \A u \in Users, n \in Amounts :
        (Compliant(u) /\ eth[u] >= n) =>
            LET d == deposit(World, u, n) IN
            IF n = 0 THEN d = Revert(World, "Deposit must be > 0")
            ELSE IF VaultAddr \notin minterRole
            THEN d = RevertFor(World, Unauthorized, VaultAddr)
            ELSE /\ d.err = OK
                 /\ d.st.balances = [balances EXCEPT ![u] = @ + n]
                 /\ d.st.totalSupply = totalSupply + n
                 /\ d.st.eth = [eth EXCEPT ![u] = @ - n, ![VaultAddr] = @ + n]
                 /\ OnlyFundsMoved(d.st)
                 /\ d.st.logs = << Event("Transfer", ZeroAddr, u, n, 0),
                                   Event("Deposited", u, ZeroAddr, n, n) >>

\* C14 witness: with tokens already held by two users and ETH in the vault,
\* an approved user deposits 1 and is refused a deposit of 0.
C14_Witness ==
    \E u \in Users : \E v \in Users \ {u} :
        /\ balances[u] >= 1 /\ balances[v] >= 1 /\ eth[VaultAddr] >= 1
        /\ deposit(World, u, 1).err = OK
        /\ deposit(World, u, 1).st.balances[u] = balances[u] + 1
        /\ deposit(World, u, 0).err = "Deposit must be > 0"

\* C15: a successful transferBKD(to, amount) leaves the token as a direct
\* transfer(to, amount) by the caller does: the caller has amount less and
\* `to` amount more (nothing changes when to is the caller), the vault's own
\* balance and totalSupply are unchanged; and it succeeds only if the caller
\* and `to` are both approved and amount > 0.
C15_SameAsTransfer ==
    \A u \in Users, x \in Users, n \in Amounts :
        LET r == transferBKD(World, u, x, n)
            direct == transfer(World, u, x, n)
        IN r.err = OK =>
            /\ Compliant(u) /\ Compliant(x) /\ n > 0
            /\ direct.err = OK
            /\ r.st.balances = direct.st.balances
            /\ r.st.balances = [[balances EXCEPT ![u] = @ - n] EXCEPT ![x] = @ + n]
            /\ r.st.balances[VaultAddr] = balances[VaultAddr]
            /\ r.st.totalSupply = totalSupply
            /\ r.st.totalSupply = direct.st.totalSupply
            /\ [r.st EXCEPT !.balances = balances, !.logs = <<>>] = World

\* C15 witness: a holder moves a token to another holder and to itself
\* through the vault, which holds stray tokens of its own.
C15_Witness ==
    \E u \in Users : \E x \in Users \ {u} :
        /\ balances[x] >= 1
        /\ transferBKD(World, u, x, 1).err = OK
        /\ transferBKD(World, u, x, 1).st.balances[x] = balances[x] + 1
        /\ transferBKD(World, u, u, 1).err = OK
        /\ transferBKD(World, u, u, 1).st.balances = balances

\* The debt of an account after accrual to the current time, computed from
\* the stored account as _accrue computes it.
AccruedDebt(u) ==
    LET a == accounts[u] IN
    IF a.debt = 0 THEN 0
    ELSE a.debt + (a.debt * annualRateBps * (now - a.lastAccrued))
                      \div (BpsDenominator * TicksPerYear)

\* C16: borrow(amount) by an approved caller with amount > 0 fails with
\* BorrowTooLarge exactly when accrued debt + amount exceeds
\* floor(collateral * maxLTVBps / 10000); otherwise the stored debt becomes
\* accrued debt + amount, the caller's token balance grows by amount and the
\* pool's token balance shrinks by amount.
C16_BorrowEffect ==
    \A u \in Users, n \in 1..MaxAmt :
        Compliant(u) =>
            LET r == borrow(World, u, n)
                limit == (accounts[u].collateral * maxLTVBps) \div BpsDenominator
            IN
            IF AccruedDebt(u) + n > limit
            THEN r = Revert(World, "BorrowTooLarge")
            ELSE /\ r.err = OK
                 /\ r.st.accounts = [accounts EXCEPT
                        ![u] = [collateral |-> accounts[u].collateral,
                                debt |-> AccruedDebt(u) + n,
                                lastAccrued |-> now]]
                 /\ r.st.balances = [balances EXCEPT ![u] = @ + n, ![PoolAddr] = @ - n]
                 /\ r.st.totalSupply = totalSupply

\* C16 witness: with collateral 2 and maxLTVBps 5000 borrowing 2 is refused
\* and borrowing 1 succeeds with debt 1.
C16_Witness ==
    \E u \in Users :
        /\ accounts[u].collateral = 2 /\ accounts[u].debt = 0
        /\ maxLTVBps = DefaultMaxLTVBps
        /\ borrow(World, u, 2).err = "BorrowTooLarge"
        /\ borrow(World, u, 1).err = OK
        /\ borrow(World, u, 1).st.accounts[u].debt = 1

\* The two failures by which withdrawCollateral reports that the collateral
\* does not suffice: the require string of line 179 and the custom error of
\* line 184.
InsufficientCollateral == {"Not enough collateral", "InsufficientCollateral"}

\* C17: withdrawCollateral(amount) by an approved caller with amount > 0
\* fails for insufficient collateral when amount > collateral and when the
\* accrued debt exceeds floor((collateral - amount) * maxLTVBps / 10000); in
\* every other case the collateral shrinks by amount, the caller receives
\* amount tokens from the pool and the debt is the accrued debt.
C17_WithdrawCollateralEffect ==
    \A u \in Users, n \in 1..(MaxSupply + 1) :
        Compliant(u) =>
            LET r == withdrawCollateral(World, u, n)
                a == accounts[u]
            IN
            IF n > a.collateral
            THEN /\ r = Revert(World, "Not enough collateral")
                 /\ r.err \in InsufficientCollateral
            ELSE IF AccruedDebt(u) > ((a.collateral - n) * maxLTVBps) \div BpsDenominator
            THEN /\ r = Revert(World, "InsufficientCollateral")
                 /\ r.err \in InsufficientCollateral
            ELSE /\ r.err = OK
                 /\ r.st.accounts = [accounts EXCEPT
                        ![u] = [collateral |-> a.collateral - n,
                                debt |-> AccruedDebt(u),
                                lastAccrued |-> now]]
                 /\ r.st.balances = [balances EXCEPT ![u] = @ + n, ![PoolAddr] = @ - n]
                 /\ r.st.totalSupply = totalSupply

\* C17 witness: an account in debt with collateral 3 takes 1 out, is refused
\* 2 because of its debt and is refused 4 because it has less.
C17_Witness ==
    \E u \in Users :
        /\ accounts[u].collateral = 3 /\ accounts[u].debt = 1
        /\ withdrawCollateral(World, u, 1).err = OK
        /\ withdrawCollateral(World, u, 1).st.accounts[u].collateral = 2
        /\ withdrawCollateral(World, u, 1).st.balances[u] = balances[u] + 1
        /\ withdrawCollateral(World, u, 2).err = "InsufficientCollateral"
        /\ withdrawCollateral(World, u, 4).err = "Not enough collateral"

Min(a, b) == IF a <= b THEN a ELSE b

\* C18: repay(amount) by an approved caller with amount > 0 fails with
\* "No debt" when the account's debt is 0.  Otherwise it needs the full
\* amount in the caller's balance, and then: if amount >= accrued debt the
\* stored debt becomes 0, lastAccrued becomes now and amount - accrued debt
\* is refunded, else the stored debt becomes accrued debt - amount.  The
\* caller pays and the pool gains min(amount, accrued debt).
C18_RepayEffect ==
    \A u \in Users, n \in 1..(MaxSupply + 1) :
        Compliant(u) =>
            LET r == repay(World, u, n)
                a == accounts[u]
                paid == Min(n, AccruedDebt(u))
            IN
            IF a.debt = 0 THEN r = Revert(World, "No debt")
            ELSE IF balances[u] < n THEN r.err # OK /\ r.st = World
            ELSE /\ r.err = OK
                 /\ r.st.accounts = [accounts EXCEPT
                        ![u] = [collateral |-> a.collateral,
                                debt |-> AccruedDebt(u) - paid,
                                lastAccrued |-> now]]
                 /\ r.st.balances = [balances EXCEPT ![u] = @ - paid, ![PoolAddr] = @ + paid]
                 /\ r.st.totalSupply = totalSupply
                 /\ (n > AccruedDebt(u)) <=>
                        \E i \in 1..Len(r.st.logs) :
                            r.st.logs[i] = Event("Transfer", PoolAddr, u, n - AccruedDebt(u), 0)

\* C18 witness: an account owing 1 and holding 2 repays 2 and gets 1 back,
\* repays 1 exactly, cannot repay 3, and an account without debt is refused.
C18_Witness ==
    \E u \in Users : \E v \in Users \ {u} :
        /\ accounts[u].debt = 1 /\ AccruedDebt(u) = 1 /\ balances[u] = 2
        /\ repay(World, u, 2).err = OK
        /\ repay(World, u, 2).st.accounts[u].debt = 0
        /\ repay(World, u, 2).st.balances[u] = 1
        /\ repay(World, u, 1).err = OK
        /\ repay(World, u, 1).st.accounts[u].debt = 0
        /\ repay(World, u, 3).err # OK
        /\ Compliant(v) /\ repay(World, v, 1).err = "No debt"

\* The two failures by which setParams reports a parameter out of range.
ParameterOutOfRange == {"LTV too high", "APR too high"}

ParamsChanged(w) == w.maxLTVBps # maxLTVBps \/ w.annualRateBps # annualRateBps

\* C19: in every reachable state maxLTVBps <= 9000 and annualRateBps <= 5000;
\* setParams with maxLTVBps > 9000 or annualRateBps > 5000 fails, for a
\* RISK_ROLE caller with the out-of-range error, and leaves both parameters
\* as they were; and no call other than a successful, in-range setParams
\* changes the parameters.
C19_ParamsInRange ==
    /\ maxLTVBps <= LTVCap /\ annualRateBps <= RateCap
    /\ \A u \in Users, l \in LTVs, q \in Rates :
          (l > LTVCap \/ q > RateCap) =>
              LET r == setParams(World, u, l, q) IN
              /\ r.err # OK
              /\ r.st = World
              /\ u \in RiskRole => r.err \in ParameterOutOfRange
    /\ EveryCall(LAMBDA r :
          ParamsChanged(r.st) =>
              \E u \in RiskRole, l \in LTVs, q \in Rates :
                  /\ l <= LTVCap /\ q <= RateCap
                  /\ r = setParams(World, u, l, q)
                  /\ r.err = OK
                  /\ r.st.maxLTVBps = l /\ r.st.annualRateBps = q)

\* C19 witness: with both parameters at their caps, the admin is refused
\* one more basis point on either and may go back to the defaults.
C19_Witness ==
    /\ maxLTVBps = LTVCap /\ annualRateBps = RateCap
    /\ setParams(World, Admin, LTVCap + 1, RateCap).err = "LTV too high"
    /\ setParams(World, Admin, LTVCap, RateCap + 1).err = "APR too high"
    /\ setParams(World, Admin, DefaultMaxLTVBps, DefaultAnnualRateBps).err = OK
    /\ ParamsChanged(setParams(World, Admin, DefaultMaxLTVBps, DefaultAnnualRateBps).st)
    /\ \E u \in Users : accounts[u].debt > 0

\* C20: getAccount(user) is a view: it returns values and writes nothing.
\* For every account and every time t >= lastAccrued, the debt it returns
\* at t is the debt _accrue(user) would store at t with the same risk
\* parameters, and the collateral it returns is the stored collateral.
C20_GetAccountProjects ==
    \A u \in Users :
        \A t \in accounts[u].lastAccrued..(MaxTime + 1) :
            LET w == AtTime(World, t)
                g == getAccount(w, u)
            IN
            /\ g[1] = accounts[u].collateral
            /\ g[2] = accrue(w, u).accounts[u].debt
            /\ g[3] = accounts[u].lastAccrued

\* C20 witness: an account whose debt has a whole unit of interest to
\* accrue: getAccount shows more than the stored debt, and exactly what
\* _accrue would store.
C20_Witness ==
    \E u \in Users :
        /\ accounts[u].debt > 0 /\ accounts[u].collateral > 0
        /\ now > accounts[u].lastAccrued
        /\ getAccount(World, u)[2] > accounts[u].debt
        /\ getAccount(World, u)[2] = accrue(World, u).accounts[u].debt
        /\ getAccount(World, u)[1] = accounts[u].collateral

\* The call succeeded and its log holds the event ev.
Logs(r, ev) == r.err = OK => \E i \in 1..Len(r.st.logs) : r.st.logs[i] = ev
\* The call succeeded and changed the state, and its log holds some event.
LogsSomething(r) == (r.err = OK /\ After(r) # World) => Len(r.st.logs) >= 1

\* Every successful registry, token (mint, burn, transfer), vault (deposit,
\* withdraw, transferBKD) and pool call logs its event: the kind, the
\* accounts, the amount, and for Borrowed and Repaid the new stored debt.
LoggedWhereEmitted ==
    /\ \A u \in Users, h \in Hashes :
          Logs(requestKYC(World, u, h), Event("KYCRequested", u, ZeroAddr, h, 0))
    /\ \A u \in Users, x \in Users :
          /\ \A l \in Levels, e \in Expiries :
                Logs(approveFromRequest(World, u, x, l, e), Event("KYCApproved", x, u, l, e))
          /\ Logs(approveKYC(World, u, x), Event("KYCApproved", x, u, 1, 0))
          /\ Logs(revokeKYC(World, u, x), Event("KYCRevoked", x, u, 0, 0))
    /\ \A u \in Users, x \in Addr, n \in Amounts :
          /\ Logs(mint(World, u, x, n), Event("Transfer", ZeroAddr, x, n, 0))
          /\ Logs(burn(World, u, x, n), Event("Transfer", x, ZeroAddr, n, 0))
          /\ Logs(transfer(World, u, x, n), Event("Transfer", u, x, n, 0))
    /\ \A u \in Users, n \in Amounts :
          /\ Logs(deposit(World, u, n), Event("Deposited", u, ZeroAddr, n, n))
          /\ \A h \in Hooks(u) :
                Logs(withdraw(World, u, n, h), Event("Withdrawn", u, ZeroAddr, n, n))
          /\ \A x \in Users :
                Logs(transferBKD(World, u, x, n), Event("TransferBKD", u, x, n, 0))
          /\ Logs(depositCollateral(World, u, n),
                  Event("CollateralDeposited", u, ZeroAddr, n, 0))
          /\ Logs(withdrawCollateral(World, u, n),
                  Event("CollateralWithdrawn", u, ZeroAddr, n, 0))
          /\ LET r == borrow(World, u, n)
             IN Logs(r, Event("Borrowed", u, ZeroAddr, n, r.st.accounts[u].debt))
          /\ LET r == repay(World, u, n)
             IN Logs(r, Event("Repaid", u, ZeroAddr, Min(n, AccruedDebt(u)),
                              r.st.accounts[u].debt))
    /\ \A u \in Users, l \in LTVs, q \in Rates :
          Logs(setParams(World, u, l, q), Event("ParamsUpdated", ZeroAddr, ZeroAddr, l, q))

\* C21: every successful state-changing call logs at least one event with
\* its kind, accounts, amount and new state: the calls above, and also
\* setSystemAddress and treasuryWithdrawETH.
C21_EveryChangeLogged ==
    /\ LoggedWhereEmitted
    /\ \A u \in Users, x \in Addr, b \in BOOLEAN :
          LogsSomething(setSystemAddress(World, u, x, b))
    /\ \A u \in Users, x \in Users, n \in Amounts : \A h \in SimpleHooks :
          LogsSomething(treasuryWithdrawETH(World, u, x, n, h))

\* C21 witness: the admin sweeps 1 ETH out of the vault and marks the pool
\* as system address; both calls succeed, change the state and log nothing.
C21_Witness ==
    LET r == treasuryWithdrawETH(World, Admin, Admin, 1, [kind |-> "accept"])
        q == setSystemAddress(World, Admin, PoolAddr, PoolAddr \notin isSystemAddress)
    IN /\ totalSupply >= 1
       /\ r.err = OK
       /\ r.st.eth[VaultAddr] = eth[VaultAddr] - 1
       /\ r.st.logs = <<>>
       /\ q.err = OK
       /\ q.st.isSystemAddress # isSystemAddress
       /\ q.st.logs = <<>>

\* C22: requestKYC(kycHash) fails with "kycHash=0" for the zero hash;
\* otherwise it succeeds for any caller, approved or not, sets the caller's
\* own pending hash to kycHash whatever it was, and changes nothing else: an
\* approved caller's record is as before and the caller is still approved.
C22_RequestEffect ==
    \A u \in Users, h \in Hashes :
        LET r == requestKYC(World, u, h) IN
        IF h = NoHash THEN r = Revert(World, "kycHash=0")
        ELSE /\ r.err = OK
             /\ After(r) = [World EXCEPT !.pendingKycHash[u] = h]
             /\ r.st.kyc = kyc
             /\ isKYCApproved(r.st, u) = Compliant(u)

\* C22 witness: an approved customer with a request pending replaces it by
\* another and stays approved; a customer that is not approved requests too.
C22_Witness ==
    \E u \in Customers : \E v \in Users \ {u} :
        /\ Compliant(u) /\ pendingKycHash[u] = 1
        /\ requestKYC(World, u, 2).err = OK
        /\ requestKYC(World, u, 2).st.pendingKycHash[u] = 2
        /\ isKYCApproved(requestKYC(World, u, 2).st, u)
        /\ requestKYC(World, u, NoHash).err = "kycHash=0"
        /\ ~Compliant(v) /\ requestKYC(World, v, 1).err = OK

\* A successful revokeKYC(x) clears approved and nothing else, and leaves x
\* not approved at the block time of the call and at every later one.
RevokeClearsApprovedOnly ==
    \A u \in Users, x \in Users :
        LET r == revokeKYC(World, u, x) IN
        r.err = OK =>
            /\ After(r) = [World EXCEPT !.kyc[x].approved = FALSE]
            /\ r.st.kyc[x].level = kyc[x].level
            /\ r.st.kyc[x].expiresAt = kyc[x].expiresAt
            /\ r.st.pendingKycHash = pendingKycHash
            /\ \A y \in Addr \ {x} : r.st.kyc[y] = kyc[y]
            /\ \A t \in now..(MaxTime + 1) : ~isKYCApproved(AtTime(r.st, t), x)

\* C23: a successful revokeKYC(x) sets approved to false and leaves level,
\* expiresAt, the pending hash and every other record as they were; x is
\* then not approved at any later time, until a step that is a successful
\* approval of x.
C23_RevokeEffect ==
    /\ []RevokeClearsApprovedOnly
    /\ [][\A a \in Addr : (~kyc[a].approved /\ kyc'[a].approved) => ApprovalOf(a)]_vars

\* C23 witness: a customer approved at level 2 with an expiry ahead, and a
\* new request pending, is revoked by the admin.
C23_Witness ==
    \E x \in Customers :
        LET r == revokeKYC(World, Admin, x) IN
        /\ Compliant(x) /\ kyc[x].level = 2 /\ kyc[x].expiresAt > now
        /\ pendingKycHash[x] # NoHash
        /\ r.err = OK
        /\ ~isKYCApproved(r.st, x)
        /\ r.st.kyc[x] = [approved |-> FALSE, level |-> 2, expiresAt |-> kyc[x].expiresAt]

\* The vault holds at least one wei for every token in circulation.
Backed(w) == w.eth[VaultAddr] >= w.totalSupply

\* C24: a successful treasuryWithdrawETH leaves the vault's ETH no lower
\* than totalSupply when it was so before, and after it every approved
\* holder that accepts ETH can still withdraw any amount it holds.
C24_SweepKeepsBacking ==
    \A u \in Users, x \in Users, n \in Amounts : \A h \in SimpleHooks :
        LET r == treasuryWithdrawETH(World, u, x, n, h) IN
        (Backed(World) /\ r.err = OK) =>
            /\ Backed(r.st)
            /\ \A v \in Users, m \in 1..MaxAmt :
                  (isKYCApproved(r.st, v) /\ r.st.balances[v] >= m) =>
                      withdraw(After(r), v, m, [kind |-> "accept"]).err # "ETH transfer failed"

\* C24 witness: every wei in the vault backs a token of an approved holder;
\* the admin sweeps 1 wei, and the holder's withdrawal of all its tokens,
\* which would have succeeded, now fails at the payout.
C24_Witness ==
    \E v \in Customers :
        LET r == treasuryWithdrawETH(World, Admin, Admin, 1, [kind |-> "accept"])
            m == balances[v]
        IN /\ m >= 1 /\ eth[VaultAddr] = totalSupply /\ totalSupply = m
           /\ Compliant(v)
           /\ withdraw(World, v, m, [kind |-> "accept"]).err = OK
           /\ r.err = OK
           /\ r.st.eth[VaultAddr] = r.st.totalSupply - 1
           /\ withdraw(After(r), v, m, [kind |-> "accept"]).err = "ETH transfer failed"

\* The position on the chain of the log a row of the table was built from.
ChainPosition(row) ==
    CHOOSE k \in 1..Len(chainLogs) :
        /\ chainLogs[k].transactionHash = row.txHash
        /\ chainLogs[k].log.kind = row.eventName

\* C25: the table holds the vault and lending events in the order of the
\* chain: of any two rows, the one with the smaller id was built from the
\* log emitted earlier, also when the two logs are of different events or
\* contracts and in the same block.
C25_StoredInChainOrder ==
    \A i \in 1..Len(events), j \in 1..Len(events) :
        i < j => ChainPosition(events[i]) < ChainPosition(events[j])

\* C25 witness: one run of indexOnce has stored a block in which a pool or
\* Withdrawn event was followed by a Deposited event of a later
\* transaction, and the Deposited row has the smaller id.
C25_Witness ==
    /\ running = <<>>
    /\ \E i \in 1..Len(events), j \in 1..Len(events) :
          /\ i < j
          /\ events[i].blockNumber = events[j].blockNumber
          /\ events[i].eventName = "Deposited"
          /\ events[j].eventName \in {"Withdrawn", "CollateralDeposited"}
          /\ events[i].txHash > events[j].txHash
          /\ ChainPosition(events[i]) > ChainPosition(events[j])

\* This step is a successful requestKYC by `a` itself, with a non-zero hash.
RequestBy(a) ==
    \E h \in Hashes \ {NoHash} :
        LET r == requestKYC(World, a, h)
        IN r.err = OK /\ pendingKycHash' = r.st.pendingKycHash
\* This step is a successful approval of `a` by an officer who is approved
\* at the time of the step.
ApprovalByOfficer(a) ==
    \E u \in Users :
        /\ MayDecide(u)
        /\ \E r \in ApprovalsOf(World, u, a) : r.err = OK /\ kyc' = r.st.kyc
\* Nobody can approve an account that has no pending hash, and a request
\* writes no pending hash but the caller's.
NoApprovalWithoutRequest ==
    /\ \A u \in Users, x \in Addr :
          pendingKycHash[x] = NoHash =>
              \A r \in ApprovalsOf(World, u, x) : r.err # OK /\ r.st = World
    /\ \A u \in Users, h \in Hashes :
          \A x \in Addr \ {u} :
              requestKYC(World, u, h).st.pendingKycHash[x] = pendingKycHash[x]

C27_ApprovedIsCompliant ==
    \A u \in Users, x \in Users :
        \A r \in ApprovalsOf(World, u, x) :
            r.err = OK => isKYCApproved(r.st, x)

\* C27 witness: the admin approves a pending request with an expiresAt that
\* has passed: the call succeeds, the record says approved, the pending hash
\* is consumed, and the customer is not approved.
C27_Witness ==
    \E x \in Customers :
        LET r == approveFromRequest(World, Admin, x, 1, MaxTime - 1) IN
        /\ now > MaxTime - 1
        /\ pendingKycHash[x] # NoHash
        /\ r.err = OK
        /\ r.st.kyc[x] = [approved |-> TRUE, level |-> 1, expiresAt |-> MaxTime - 1]
        /\ r.st.pendingKycHash[x] = NoHash
        /\ ~isKYCApproved(r.st, x)
        /\ isKYCApproved(approveFromRequest(World, Admin, x, 1, 0).st, x)

\* The results of the four lending calls `c` can make in the current world.
PoolCallsBy(c) ==
    UNION {{depositCollateral(World, c, n), withdrawCollateral(World, c, n),
            borrow(World, c, n), repay(World, c, n)} : n \in Amounts}
\* This step is a successful call of `c` from the given set of results.
StepOf(calls) ==
    \E r \in calls : r.err = OK /\ accounts' = r.st.accounts

\* Whatever the call, if it changes a lending record it is one of the four
\* lending calls and the record is the caller's.
OnlyOwnRecord ==
    EveryCall(LAMBDA r :
        r.st.accounts # accounts =>
            \E c \in Users :
                /\ r \in PoolCallsBy(c)
                /\ \A a \in Addr \ {c} : r.st.accounts[a] = accounts[a])

\* C28: depositCollateral, withdrawCollateral, borrow and repay change the
\* caller's lending record only, and no other call changes any; the stored
\* debt of an account goes down only in its own repay, and goes up only in
\* its own borrow or by the interest its own call accrues.
C28_OwnRecordOnly ==
    /\ []OnlyOwnRecord
    /\ [][\A a \in Addr :
            /\ accounts'[a] # accounts[a] => StepOf(PoolCallsBy(a))
            /\ accounts'[a].debt < accounts[a].debt =>
                  StepOf({repay(World, a, n) : n \in Amounts})
            /\ accounts'[a].debt > accounts[a].debt =>
                  \/ StepOf({borrow(World, a, n) : n \in Amounts})
                  \/ /\ AccruedDebt(a) > accounts[a].debt
                     /\ accounts'[a].debt <= AccruedDebt(a)]_vars

\* C28 witness: two accounts hold collateral, the other's clock is behind
\* the block time; the first borrows, and only its own record changes.
C28_Witness ==
    \E u \in Users : \E v \in Users \ {u} :
        LET r == borrow(World, u, 1) IN
        /\ accounts[v].collateral >= 1 /\ accounts[v].lastAccrued < now
        /\ r.err = OK
        /\ r.st.accounts[u].debt = accounts[u].debt + 1
        /\ r.st.accounts[v] = accounts[v]

\* No account's lastAccrued is ahead of the block time, and whatever the
\* call, it leaves every lastAccrued as it was or at the block time.
ClockSetToNow ==
    /\ \A a \in Addr : accounts[a].lastAccrued <= now
    /\ EveryCall(LAMBDA r :
          \A a \in Addr :
              r.st.accounts[a].lastAccrued \in {accounts[a].lastAccrued, now})

\* C29: with block times that do not go back, no account's lastAccrued ever
\* decreases, and a step that changes it sets it to the block time of the
\* step.
C29_LastAccruedMonotone ==
    /\ []ClockSetToNow
    /\ [][\A a \in Addr :
            /\ now' >= now
            /\ accounts'[a].lastAccrued >= accounts[a].lastAccrued
            /\ accounts'[a].lastAccrued # accounts[a].lastAccrued =>
                  accounts'[a].lastAccrued = now]_vars

\* C29 witness: an account whose clock stands at an earlier block repays
\* its debt in full, and one without debt deposits collateral: both calls
\* move the account's clock to the block time.
C29_Witness ==
    \E u \in Users : \E v \in Users \ {u} :
        LET r == repay(World, u, accounts[u].debt)
            d == depositCollateral(World, v, 1)
        IN
        /\ accounts[u].debt > 0
        /\ 0 < accounts[u].lastAccrued /\ accounts[u].lastAccrued < now
        /\ r.err = OK
        /\ r.st.accounts[u].debt = 0
        /\ r.st.accounts[u].lastAccrued = now
        /\ accounts[v].debt = 0 /\ accounts[v].lastAccrued < now
        /\ d.err = OK
        /\ d.st.accounts[v].lastAccrued = now

\* C30: while an account's debt is 0, _accrue adds nothing and getAccount
\* shows 0 at any time; and when such an account borrows at block time t,
\* its stored debt right after is the borrowed amount, and the debt _accrue
\* stores or getAccount shows at a later time t2 is that amount plus the
\* interest on it for t2 - t, however long the account had been idle.
C30_NoInterestWhileIdle ==
    \A u \in Users :
        accounts[u].debt = 0 =>
            /\ \A t \in now..(MaxTime + 1) :
                  /\ accrue(AtTime(World, t), u).accounts[u].debt = 0
                  /\ getAccount(AtTime(World, t), u)[2] = 0
            /\ \A n \in 1..MaxAmt :
                  LET b == borrow(World, u, n) IN
                  b.err = OK =>
                      /\ b.st.accounts[u].debt = n
                      /\ \A t2 \in now..(MaxTime + 1) :
                            LET w == AtTime(After(b), t2)
                                due == n + (n * annualRateBps * (t2 - now))
                                               \div (BpsDenominator * TicksPerYear)
                            IN /\ accrue(w, u).accounts[u].debt = due
                               /\ getAccount(w, u)[2] = due

\* C30 witness: an account idle since an earlier block borrows 1 at the
\* highest rate; two years on it owes 2, the interest of those two years,
\* and 1 after one year.
C30_Witness ==
    \E u \in Users :
        LET b == borrow(World, u, 1) IN
        /\ accounts[u].debt = 0 /\ accounts[u].collateral >= 2
        /\ accounts[u].lastAccrued < now
        /\ annualRateBps = RateCap
        /\ b.err = OK
        /\ b.st.accounts[u].debt = 1
        /\ getAccount(AtTime(After(b), now + TicksPerYear), u)[2] = 1
        /\ getAccount(AtTime(After(b), now + 2 * TicksPerYear), u)[2] = 2
        /\ accrue(AtTime(After(b), now + 2 * TicksPerYear), u).accounts[u].debt = 2


\* The token's KYC check does not stop the call r.
PassesKyc(r) == r.err # "NotKYCApproved"
\* Every mint to, burn from and transfer from or to `a` in world w is stopped.
TokenClosedFor(w, a) ==
    \A u \in Addr, n \in Amounts :
        /\ mint(w, u, a, n).err # OK
        /\ burn(w, u, a, n).err # OK
        /\ transfer(w, a, u, n).err # OK
        /\ transfer(w, u, a, n).err # OK
\* The call r failed and changed nothing.
Fails(r) == r.err # OK /\ r.st = World

\* C31: a system address is credited and debited by mint, burn and transfer
\* whether or not it is KYC-approved, while the other party of a transfer,
\* when it is no system address, is still checked; once
\* setSystemAddress(a, false) has cleared the flag of an address that is not
\* KYC-approved, every mint, burn and transfer with it fails; and while the
\* pool (the vault) is neither a system address nor approved, every
\* depositCollateral, withdrawCollateral, borrow and repay (every
\* transferBKD) fails.
C31_ExemptionDecides ==
    /\ \A a \in isSystemAddress : \A n \in Amounts :
          /\ \A u \in minterRole :
                /\ mint(World, u, a, n).err = OK
                /\ PassesKyc(burn(World, u, a, n))
                /\ balances[a] >= n => burn(World, u, a, n).err = OK
          /\ \A b \in Addr :
                IF KycExempt(World, b)
                THEN /\ PassesKyc(transfer(World, a, b, n))
                     /\ PassesKyc(transfer(World, b, a, n))
                     /\ balances[a] >= n => transfer(World, a, b, n).err = OK
                     /\ balances[b] >= n => transfer(World, b, a, n).err = OK
                ELSE /\ StoppedFor(transfer(World, a, b, n), b)
                     /\ StoppedFor(transfer(World, b, a, n), b)
    /\ \A a \in Addr :
          LET r == setSystemAddress(World, Admin, a, FALSE) IN
          /\ r.err = OK
          /\ a \notin r.st.isSystemAddress
          /\ ~isKYCApproved(World, a) => TokenClosedFor(After(r), a)
    /\ ~KycExempt(World, PoolAddr) =>
          \A u \in Users, n \in Amounts :
              /\ Fails(depositCollateral(World, u, n))
              /\ Fails(withdrawCollateral(World, u, n))
              /\ Fails(borrow(World, u, n))
              /\ Fails(repay(World, u, n))
    /\ ~KycExempt(World, VaultAddr) =>
          \A u \in Users, x \in Users, n \in Amounts :
              Fails(transferBKD(World, u, x, n))

\* C31 witness: the pool's flag was cleared while it holds the collateral of
\* an approved customer who has debt and tokens and has approved both
\* contracts, and the vault is no system address either.
C31_Witness ==
    \E c \in Customers :
        /\ PoolAddr \notin isSystemAddress
        /\ VaultAddr \notin isSystemAddress
        /\ isKYCApproved(World, c)
        /\ accounts[c].collateral >= 1
        /\ balances[PoolAddr] >= 1
        /\ balances[c] >= 1
        /\ <<c, PoolAddr>> \in allowances
        /\ <<c, VaultAddr>> \in allowances


\* This step takes the stored debt of u from within its limit to above it.
LeavesLimit(u) ==
    /\ WithinLTV(World, u)
    /\ accounts'[u].debt > (accounts'[u].collateral * maxLTVBps') \div BpsDenominator
\* This step accrues the debt of u, and there is interest to add.
AddsInterest(u) ==
    /\ accounts[u].debt > 0
    /\ accounts[u].lastAccrued < now
    /\ accounts'[u].lastAccrued = now
    /\ AccruedDebt(u) > accounts[u].debt

\* C32: the stored debt of an account leaves the limit
\* floor(collateral * maxLTVBps / 10000) only in a step that adds accrued
\* interest to it or in a setParams that lowers maxLTVBps; depositCollateral,
\* withdrawCollateral, borrow and repay without interest to add, and every
\* other operation, keep a debt that is within the limit within it.
C32_LimitLeftByInterestOrParams ==
    [][\A u \in Users :
          LeavesLimit(u) => (AddsInterest(u) \/ maxLTVBps' < maxLTVBps)]_vars

\* C32 as stated: in every reachable state the stored debt of every account
\* is at most floor(collateral * maxLTVBps / 10000).
C32_AsStated == \A u \in Users : WithinLTV(World, u)

\* C32 witness: the stored debt of an account with collateral is above the
\* limit, and more interest is due on it.
C32_Witness ==
    \E u \in Users :
        /\ accounts[u].collateral >= 1
        /\ ~WithinLTV(World, u)
        /\ accounts[u].lastAccrued < now


\* The collateral of every account less the debt stored for it, added up.
RECURSIVE NetCollateral(_)
NetCollateral(S) ==
    IF S = {} THEN 0
    ELSE LET u == CHOOSE x \in S : TRUE
         IN accounts[u].collateral - accounts[u].debt + NetCollateral(S \ {u})
\* The token stopped the call r because the paying account holds too little.
ShortOfTokens(r) == r.err = "ERC20InsufficientBalance"

\* C33: with the pool a system address and the vault the only minter, in
\* every reachable state the pool's token balance is at least the sum over
\* all accounts of collateral minus outstanding debt, and no borrow and no
\* withdrawCollateral fails with ERC20InsufficientBalance: one that passes
\* its collateral and loan-to-value checks is paid from the pool's balance,
\* whatever other accounts have deposited, borrowed or repaid.
C33_ReservesCoverPayouts ==
    PoolAddr \in isSystemAddress =>
        /\ balances[PoolAddr] >= NetCollateral(Users)
        /\ \A u \in Users, n \in Amounts :
              /\ ~ShortOfTokens(borrow(World, u, n))
              /\ ~ShortOfTokens(withdrawCollateral(World, u, n))

\* C33 witness: one account has collateral in the pool, another has borrowed
\* from it so that the pool holds less than the collateral it owes, and
\* both a borrow and a collateral withdrawal pass their checks and are paid.
C33_Witness ==
    \E u \in Users : \E v \in Users \ {u} :
        /\ PoolAddr \in isSystemAddress
        /\ accounts[u].collateral >= 1
        /\ accounts[v].debt >= 1
        /\ balances[PoolAddr] < accounts[u].collateral + accounts[v].collateral
        /\ \E w \in Users : borrow(World, w, 1).err = OK
        /\ withdrawCollateral(World, u, 1).err = OK


\* The payee's code takes the ETH: it reverts neither by itself nor because
\* a call it makes from its callback failed.
AcceptsPayout(h) ==
    h.kind = "accept" \/ (h.kind = "reenter" /\ ~h.propagate)
\* This step is a plain transfer of ETH to the vault, outside deposit.
ReceiveStep ==
    \E u \in Users, v \in 1..InitEth :
        /\ receive(World, u, v).err = OK
        /\ eth' = receive(World, u, v).st.eth
        /\ totalSupply' = totalSupply

\* C34: while the vault is the only minter and treasuryWithdrawETH is never
\* called, the vault's ETH is at least totalSupply in every reachable state,
\* the difference grows only by ETH sent to the vault outside deposit and
\* never shrinks (so the two are equal when no such ETH was sent), and a
\* withdraw by an approved holder of at least `amount` tokens whose payee
\* accepts the payout never fails with "ETH transfer failed".
C34_BackedWithoutSweep ==
    /\ [](/\ minterRole \subseteq {VaultAddr}
          /\ Backed(World)
          /\ \A u \in Users, n \in 1..MaxAmt : \A h \in Hooks(u) \cap NoSweepHooks :
                (Compliant(u) /\ balances[u] >= n /\ AcceptsPayout(h)) =>
                    withdraw(World, u, n, h).err # "ETH transfer failed")
    /\ [][\/ eth'[VaultAddr] - totalSupply' = eth[VaultAddr] - totalSupply
          \/ /\ eth'[VaultAddr] - totalSupply' > eth[VaultAddr] - totalSupply
             /\ ReceiveStep]_vars

\* C34 witness: the vault holds stray ETH besides the backing of two
\* holders' tokens, and an approved holder withdraws all its tokens, its
\* payee calling back into the vault before it takes the ETH.
C34_Witness ==
    \E u \in Users : \E v \in Users \ {u} :
        /\ minterRole = {VaultAddr}
        /\ balances[u] = MaxAmt
        /\ balances[v] >= 1
        /\ eth[VaultAddr] > totalSupply
        /\ Compliant(u)
        /\ \E h \in Hooks(u) \cap NoSweepHooks :
              /\ h.kind = "reenter"
              /\ withdraw(World, u, MaxAmt, h).err = OK


\* The times up to which the model accrues an account.
AccrualTimes == 1..(MaxTime + 2)
\* The debt stored for u by _accrue at t1 followed by _accrue at t2.
TwoSteps(u, t1, t2) ==
    accrue(AtTime(accrue(AtTime(World, t1), u), t2), u).accounts[u].debt
\* The debt one accrual at t2 owes: stored debt and the truncated interest
\* since lastAccrued, at the current rate.
OneStep(u, t2) ==
    accounts[u].debt
      + (accounts[u].debt * annualRateBps * (t2 - accounts[u].lastAccrued))
            \div (BpsDenominator * TicksPerYear)
\* The interest of u over the time from lastAccrued to t1 is a whole number.
NothingTruncated(u, t1) ==
    (accounts[u].debt * annualRateBps * (t1 - accounts[u].lastAccrued))
        % (BpsDenominator * TicksPerYear) = 0

\* C35: for an account in debt, at a fixed rate and without borrow or repay,
\* _accrue at t1 and again at t2 (lastAccrued < t1 < t2) stores no less than
\* the debt at lastAccrued and at most one unit less than a single _accrue at
\* t2 would; it stores no less than the single _accrue when the interest up
\* to t1 is a whole number, so that the first step truncates nothing.
C35_TwoStepsWithinOneUnit ==
    \A u \in Users : accounts[u].debt > 0 =>
        \A t1 \in AccrualTimes, t2 \in AccrualTimes :
            (accounts[u].lastAccrued < t1 /\ t1 < t2) =>
                /\ TwoSteps(u, t1, t2) >= accounts[u].debt
                /\ TwoSteps(u, t1, t2) >= OneStep(u, t2) - 1
                /\ NothingTruncated(u, t1) => TwoSteps(u, t1, t2) >= OneStep(u, t2)

\* C35 as stated: accruing at t1 and then at t2 never leaves a smaller
\* stored debt than a single accrual at t2.
C35_AsStated ==
    \A u \in Users : accounts[u].debt > 0 =>
        \A t1 \in AccrualTimes, t2 \in AccrualTimes :
            (accounts[u].lastAccrued < t1 /\ t1 < t2) =>
                TwoSteps(u, t1, t2) >= OneStep(u, t2)

\* C35 witness: an account in debt for which an accrual in between loses a
\* unit of interest to truncation over one interval, and gains one by
\* compounding over another.
C35_Witness ==
    \E u \in Users :
        /\ accounts[u].debt > 0
        /\ \E t1 \in AccrualTimes, t2 \in AccrualTimes :
              /\ accounts[u].lastAccrued < t1 /\ t1 < t2
              /\ TwoSteps(u, t1, t2) = OneStep(u, t2) - 1
        /\ \E t1 \in AccrualTimes, t2 \in AccrualTimes :
              /\ accounts[u].lastAccrued < t1 /\ t1 < t2
              /\ TwoSteps(u, t1, t2) > OneStep(u, t2)


\* The debt getAccount(u) returns before this step, and after it.
ProjectedDebt(u) == getAccount(World, u)[2]
ProjectedDebtNext(u) ==
    getAccount([World EXCEPT !.now = now', !.accounts = accounts',
                             !.annualRateBps = annualRateBps'], u)[2]
\* This step is a successful repay by u.
RepayStep(u) ==
    \E n \in Amounts :
        /\ repay(World, u, n).err = OK
        /\ accounts' = repay(World, u, n).st.accounts
        /\ balances' = repay(World, u, n).st.balances

\* C36: setParams changes no account's collateral, stored debt or
\* lastAccrued; and no step other than a repay by the account lowers the
\* debt getAccount returns for it, as time advances and other operations
\* interleave, unless the step lowers annualRateBps: the interest not yet
\* accrued is projected at the current rate over the whole time since
\* lastAccrued.
C36_ProjectedDebtMonotone ==
    /\ [](\A u \in Users, l \in LTVs, r \in Rates :
              setParams(World, u, l, r).st.accounts = accounts)
    /\ [][\A u \in Users :
            (~RepayStep(u) /\ annualRateBps' >= annualRateBps) =>
                ProjectedDebtNext(u) >= ProjectedDebt(u)]_vars

\* C36 as stated: for an account that makes no repay the debt getAccount
\* returns never decreases, whatever setParams does to annualRateBps.
C36_AsStated ==
    [][\A u \in Users : ~RepayStep(u) => ProjectedDebtNext(u) >= ProjectedDebt(u)]_vars

\* C36 witness: an account in debt with interest not yet accrued, projected
\* at the highest rate; setParams to the default rate succeeds, touches no
\* account, and getAccount then returns less for it.
C36_Witness ==
    \E u \in Users :
        LET r == setParams(World, Admin, maxLTVBps, DefaultAnnualRateBps) IN
        /\ accounts[u].debt > 0
        /\ annualRateBps = RateCap
        /\ ProjectedDebt(u) > accounts[u].debt
        /\ r.err = OK
        /\ r.st.accounts = accounts
        /\ getAccount(r.st, u)[2] < ProjectedDebt(u)


\* No holder of COMPLIANCE_ROLE is approved and unexpired.
NoOfficerCompliant == \A u \in Addr : ~MayDecide(u)
\* This step grants COMPLIANCE_ROLE to an account that is compliant already.
GrantToCompliant ==
    \E u \in Users, x \in Users :
        /\ x \notin complianceRole
        /\ Compliant(x)
        /\ grantComplianceRole(World, u, x).err = OK
        /\ complianceRole' = grantComplianceRole(World, u, x).st.complianceRole
\* Every approval and every revocation fails and changes nothing.
RegistryLocked ==
    \A u \in Users, x \in Users :
        /\ \A l \in Levels, e \in Expiries :
              Fails(approveFromRequest(World, u, x, l, e))
        /\ Fails(approveKYC(World, u, x))
        /\ Fails(revokeKYC(World, u, x))

\* C37: while no holder of COMPLIANCE_ROLE is KYC-approved and unexpired,
\* every approveFromRequest, approveKYC and revokeKYC fails; and no step
\* ends that situation (no request, no grant of the role to an account that
\* is not compliant, no passage of time) except a grant of the role to an
\* account that is compliant already.
C37_LockedForGood ==
    /\ [](NoOfficerCompliant => RegistryLocked)
    /\ [][(NoOfficerCompliant /\ ~GrantToCompliant) => NoOfficerCompliant']_vars

\* C37 witness: the admin has revoked itself, the approval of a customer
\* holding the role has run out, and a request is pending that nobody can
\* decide any more.
C37_Witness ==
    \E c \in Customers :
        /\ NoOfficerCompliant
        /\ Admin \in complianceRole /\ ~kyc[Admin].approved
        /\ c \in complianceRole /\ kyc[c].approved /\ ~Compliant(c)
        /\ \E x \in Users : pendingKycHash[x] # NoHash
        /\ RegistryLocked


\* The rows of the table built from the log at position k of the chain.
RowsOf(k) ==
    {i \in 1..Len(events) :
        /\ events[i].txHash = chainLogs[k].transactionHash
        /\ events[i].eventName = chainLogs[k].log.kind}
\* The positions on the chain of the logs the indexer reads.
IndexedLogs ==
    {k \in 1..Len(chainLogs) :
        \E i \in 1..3 : chainLogs[k].log.kind = VaultEvents[i]}
    \cup {k \in 1..Len(chainLogs) :
        \E i \in 1..4 : chainLogs[k].log.kind = LendingEvents[i]}

\* C38: every vault and lending log is in the events table exactly once: no
\* log has two rows, and when no run of indexOnce is in progress no log of a
\* block up to the highest block in the table is without a row (later runs
\* start after that block), also when the timer starts a run while another
\* is in progress and when a run has failed between two inserts.
C38_ExactlyOnce ==
    /\ \A k \in IndexedLogs : Cardinality(RowsOf(k)) <= 1
    /\ running = <<>> =>
          \A k \in IndexedLogs :
              chainLogs[k].blockNumber <= MaxBlockNumber(events) => RowsOf(k) # {}

\* C38 witness: no run is in progress; one log has two rows, from two runs
\* that overlapped, and another log of a block the table has reached has no
\* row, after a run that failed part-way.
C38_Witness ==
    /\ running = <<>>
    /\ \E k \in IndexedLogs : Cardinality(RowsOf(k)) = 2
    /\ \E k \in IndexedLogs :
          /\ chainLogs[k].blockNumber <= MaxBlockNumber(events)
          /\ RowsOf(k) = {}


\* The handler at position i of `handlers` has sent its approval and the
\* transaction succeeded in this step.
SendsApproval(i) ==
    /\ handlers[i].op = "approve" /\ handlers[i].pc = "checked"
    /\ Len(handlers') = Len(handlers)
    /\ handlers'[i].pc = "mined"
\* An approve-request for request id has its receipt and is about to write.
ApprovalMined(id) ==
    \E i \in 1..Len(handlers) :
        /\ handlers[i].op = "approve" /\ handlers[i].requestId = id
        /\ handlers[i].pc = "mined"

\* C39: the status of a row of kyc_requests changes at most once, from
\* PENDING to APPROVED or to REJECTED, however approve-request and
\* reject-request calls for the same id interleave; and it becomes APPROVED
\* only after the approval transaction of that request succeeded.
C39_StatusDecidedOnce ==
    [][\A id \in 1..Len(kycRequests) :
          kycRequests'[id].status # kycRequests[id].status =>
              /\ kycRequests[id].status = "PENDING"
              /\ kycRequests'[id].status \in {"APPROVED", "REJECTED"}
              /\ kycRequests'[id].status = "APPROVED" => ApprovalMined(id)]_vars

\* C39 witness: the audit log of one request holds a REJECTED action
\* followed by an APPROVED one, and the request of a wallet that is approved
\* on chain ends up REJECTED after its APPROVED action.
C39_Witness ==
    /\ \E id \in 1..Len(kycRequests) :
          \E i \in 1..Len(kycActions), j \in 1..Len(kycActions) :
              /\ i < j
              /\ kycActions[i] = [requestId |-> id, action |-> "REJECTED"]
              /\ kycActions[j] = [requestId |-> id, action |-> "APPROVED"]
              /\ kycRequests[id].status = "APPROVED"
    /\ \E id \in 1..Len(kycRequests) :
          \E i \in 1..Len(kycActions), j \in 1..Len(kycActions) :
              /\ i < j
              /\ kycActions[i] = [requestId |-> id, action |-> "APPROVED"]
              /\ kycActions[j] = [requestId |-> id, action |-> "REJECTED"]
              /\ kycRequests[id].status = "REJECTED"
              /\ Compliant(kycRequests[id].wallet)

\* C40: whenever approve-request approves a wallet on chain, the wallet's
\* pendingKycHash equals the kycHash stored for the request, and the record
\* written to the registry carries the level and expiresAt of the call.
C40_ApprovesMatchingCommitment ==
    [][\A i \in 1..Len(handlers) :
          SendsApproval(i) =>
              LET h == handlers[i]
                  row == kycRequests[h.requestId]
              IN /\ pendingKycHash[row.wallet] = row.kycHash
                 /\ kyc'[row.wallet] = [approved |-> TRUE, level |-> h.level,
                                        expiresAt |-> h.expiresAt]]_vars

\* C40 witness: an approve-request with level 2 and an expiry is about to
\* send its transaction for a request whose stored kycHash is not the hash
\* the wallet has pending on chain, and the transaction will succeed, writing
\* level 1 without expiry.
C40_Witness ==
    \E i \in 1..Len(handlers) :
        LET h == handlers[i]
            row == kycRequests[h.requestId]
            r == approveOnChain(World, row, h.level, h.expiresAt)
        IN /\ h.op = "approve" /\ h.pc = "checked"
           /\ h.level = 2 /\ h.expiresAt # 0
           /\ pendingKycHash[row.wallet] # NoHash
           /\ pendingKycHash[row.wallet] # row.kycHash
           /\ r.err = OK
           /\ r.st.kyc[row.wallet] = [approved |-> TRUE, level |-> 1, expiresAt |-> 0]

=============================================================================
